---- MODULE Spec2Model ----
(***************************************************************************)
(* State-machine model of the pocketbase-starter-frontend client:          *)
(*   - the auth store of the PocketBase SDK and the AuthProvider           *)
(*     (src/lib/pocketbase.ts, src/context/auth-context.tsx),              *)
(*   - the LoginForm with its one-time-code step (src/unnamed/part_001),   *)
(*   - the verify-email screen with its resend cooldown                    *)
(*     (src/app/verify-email/page.tsx),                                    *)
(*   - the token screens confirm-verification, confirm-email-change and    *)
(*     reset-password (src/app/*/page.tsx),                                *)
(*   - the RegisterForm and register (src/components/auth/register-form.tsx). *)
(* A nullable value (T | null) is the empty tuple << >> for null and the   *)
(* one-element tuple << x >> for the value x.  A network call is a request *)
(* held in a variable from the moment the handler awaits it until one      *)
(* of its response actions resumes the handler.                            *)
(***************************************************************************)
EXTENDS Integers, Sequences, FiniteSets

VARIABLES
    \* PocketBase SDK auth store and backend
    authStore,      \* pb.authStore: << >> (not valid) or << record >>
    srvOtps,        \* backend: the one-time-code challenges issued so far; srvOtps[i] is the email of otpId i
    srvVerified,    \* backend: the users' verified flags
    pocketbase_auth,    \* localStorage entry "pocketbase_auth": << >> or << text >>
    authListeners,      \* onChange listeners the AuthProviders have subscribed on pb.authStore
    providerMounted,    \* an AuthProvider is mounted
    \* AuthProvider (auth-context.tsx)
    user,           \* useState<User | null>
    isLoading,      \* useState(true)
    route,          \* the screen the router shows
    \* LoginForm (part_001)
    lfError,        \* error
    lfIsLoading,    \* isLoading
    existingUser,   \* existingUser
    showOtpForm,    \* showOtpForm
    otpId,          \* otpId
    userEmail,      \* userEmail
    isLoadingOtp,   \* isLoadingOtp
    lfReq,          \* the call onSubmit awaits
    otpReq,         \* the call onOtpSubmit / handleResendOtp awaits
    \* browser: clock and localStorage
    now,                        \* Date.now(), in milliseconds
    lastVerificationEmailSent,  \* localStorage entry "lastVerificationEmailSent"
    \* VerifyEmailPage (verify-email/page.tsx)
    isResending,        \* isResending
    isRefreshing,       \* isRefreshing
    resendStatus,       \* resendStatus
    refreshStatus,      \* refreshStatus
    countdown,          \* countdown
    initialEmailSent,   \* initialEmailSent
    timer,              \* the live setInterval of the countdown effect: << >> or << time it is due >>
    autoReqs,           \* requestVerification calls awaited by sendInitialVerificationEmail
    resendReq,          \* handleResendVerification awaits requestVerification
    orphanReqs,         \* requestVerification calls awaited by handlers of an unmounted page
    refreshReq,         \* authRefresh call: "none", "live" (awaited by the mounted page) or "orphan"
    \* token screens: ConfirmVerificationPage, ConfirmEmailChangePage, ResetPasswordPage
    token,          \* searchParams.get("token"): << >> or << string >>
    status,         \* status
    errorType,      \* errorType (confirm-email-change)
    message,        \* message
    isSubmitting,   \* isSubmitting
    tokenData,      \* tokenData (confirm-email-change)
    passwordError,  \* passwordError (confirm-email-change)
    linkReq,        \* the confirmation call the screen awaits
    link,           \* observation: what has happened since the screen was opened
    \* RegisterForm (register-form.tsx) and the backend's accounts
    srvAccounts,    \* backend: the emails that have an account
    regError,       \* error
    regIsLoading,   \* isLoading
    regReq,         \* the call register awaits
    reg,            \* observation: what has happened since the form was submitted
    \* observation of the run (no program state)
    ev,             \* the handler step taken last
    flow            \* what has happened since the LoginForm was mounted

sessVars  == <<authStore, pocketbase_auth, srvOtps, srvVerified, user, isLoading, route>>
loginVars == <<lfError, lfIsLoading, existingUser, showOtpForm, otpId, userEmail,
               isLoadingOtp, lfReq, otpReq>>
veVars == <<now, lastVerificationEmailSent, isResending, isRefreshing, resendStatus,
            refreshStatus, countdown, initialEmailSent, timer, autoReqs, resendReq,
            orphanReqs, refreshReq>>
tokVars == <<token, status, errorType, message, isSubmitting, tokenData, passwordError,
             linkReq, link>>
regVars == <<srvAccounts, regError, regIsLoading, regReq, reg>>
provVars == <<authListeners, providerMounted>>
formVars == <<tokVars, regVars, provVars>>
vars == <<sessVars, loginVars, veVars, formVars, ev, flow>>

-----------------------------------------------------------------------------
(* Bounds *)

\* the number of one-time-code challenges the backend issues in a run
MaxOtp == 3
\* the clock runs for this many seconds
MaxNow == 33
\* the number of requestVerification calls awaited at a time
MaxInFlight == 2
\* the expiry times of link tokens, in seconds
MaxExp == 3
\* the number of onChange listeners the AuthProviders subscribe in a run
MaxListeners == 3

-----------------------------------------------------------------------------
(* Values *)

None == << >>
Some(x) == << x >>
IsSome(m) == m # << >>
Get(m) == m[1]

Emails == {"a@example.com", "b@example.com"}
CorrectPassword == "correctpw"
Passwords == {CorrectPassword, "wrongpass"}
\* the code the backend sent for challenge id; 0 is a code of no challenge ("000000")
CodeOf(id) == id
Codes == 0..MaxOtp
ErrorKinds == {"ClientResponseError", "other"}

MsgInvalidCredentials == "Invalid username or password"
MsgUnexpected == "An unexpected error occurred. Please try again."
MsgAuthError == "Authentication error. Please try again."
MsgResendFailed == "Failed to resend verification code. Please try again."
\* err.message of a ClientResponseError, a text chosen by the SDK
ErrMessage == "err.message"

\* the record the backend returns for an account
RecordOf(email) == [email |-> email, verified |-> srvVerified[email]]

\* the User the AuthProvider derives from pb.authStore.model
UserOfStore(store) ==
    IF IsSome(store) THEN Some([email |-> Get(store).email, verified |-> Get(store).verified])
    ELSE None

-----------------------------------------------------------------------------
(* PocketBase auth store *)

\* the session token the backend issues for a record
TokenOf(record) == record.email

\* JSON.stringify({ token, model }) and texts that JSON.parse rejects
Stringify(store) == [text |-> "json", token |-> TokenOf(Get(store)), model |-> Get(store)]
Unparseable == [text |-> "garbage", token |-> "", model |-> [email |-> "", verified |-> FALSE]]
Parses(text) == text.text = "json"

\* the persistence listener of pocketbase.ts: the entry after a change of the store
PersistAuth_KeepsEntry(store, entry) == IF IsSome(store) THEN Some(Stringify(store)) ELSE entry
PersistAuth(store, entry) == IF IsSome(store) THEN Some(Stringify(store)) ELSE None

\* the restore block of pocketbase.ts on load: the store and the entry it leaves
RestoreAuth_TrustsEntry(entry) ==
    IF IsSome(entry)
    THEN [store |-> Some(Get(entry).model), entry |-> entry]
    ELSE [store |-> None, entry |-> None]
RestoreAuth(entry) ==
    IF IsSome(entry) /\ Parses(Get(entry))
    THEN [store |-> Some(Get(entry).model), entry |-> entry]
    ELSE [store |-> None, entry |-> None]

\* the AuthProvider of the loaded application: mounted once, its listener subscribed
ProviderLoaded ==
    /\ authListeners = 1
    /\ providerMounted = TRUE

\* authStore.save(token, record) as done by a successful auth call, and the
\* onChange listeners that follow it: pocketbase.ts persists, the AuthProvider sets user
AuthStoreSave(record) ==
    /\ authStore' = Some(record)
    /\ pocketbase_auth' = PersistAuth(Some(record), pocketbase_auth)
    /\ user' = UserOfStore(Some(record))

\* authStore.clear() and the onChange listeners
AuthStoreClear ==
    /\ authStore' = None
    /\ pocketbase_auth' = PersistAuth(None, pocketbase_auth)
    /\ user' = None

-----------------------------------------------------------------------------
(* LoginForm *)

LoginFormMounted == route = "/login"

\* nothing has happened yet in a freshly mounted LoginForm
NewFlow(store) ==
    [anon |-> ~IsSome(store),   \* the form was mounted with no session in the store
     creds |-> FALSE,           \* credentials have been submitted
     otpOk |-> FALSE,           \* an authWithOTP call has succeeded
     lastIssued |-> None,       \* the otpId of the latest successful requestOTP
     resendStart |-> None,      \* the otpId held when the latest resend started
     preResend |-> None,        \* the otpId the latest successful resend replaced
     resent |-> FALSE,          \* a resend has succeeded since the challenge was issued
     failed |-> FALSE,          \* a verify has failed since the challenge was issued
     retried |-> FALSE,         \* a verify was submitted after a failed one
     abandoned |-> FALSE]       \* Back to Login was taken and no challenge issued since

\* the initial useState values and the mount effect that computes existingUser
MountLoginForm(store) ==
    /\ lfError' = None
    /\ lfIsLoading' = FALSE
    /\ existingUser' = IF IsSome(store) THEN Some(Get(store).email) ELSE None
    /\ showOtpForm' = FALSE
    /\ otpId' = None
    /\ userEmail' = ""
    /\ isLoadingOtp' = FALSE
    /\ lfReq' = None
    /\ otpReq' = None
    /\ flow' = NewFlow(store)

\* the message onSubmit's catch block shows
OnSubmitErrorMessage(kind) ==
    IF kind = "ClientResponseError" THEN MsgInvalidCredentials ELSE MsgUnexpected

\* onSubmit, up to the await of authWithPassword
OnSubmit(email, password) ==
    /\ UNCHANGED <<veVars, formVars>>
    /\ LoginFormMounted /\ ~showOtpForm /\ ~lfIsLoading
    /\ lfIsLoading' = TRUE
    /\ lfError' = None
    /\ lfReq' = Some([op |-> "authWithPassword", email |-> email, password |-> password])
    /\ flow' = [flow EXCEPT !.creds = TRUE]
    /\ ev' = "onSubmit"
    /\ UNCHANGED <<sessVars, existingUser, showOtpForm, otpId, userEmail, isLoadingOtp, otpReq>>

\* authWithPassword resolves: the SDK saves the session, onSubmit goes on to requestOTP
AuthWithPasswordOk ==
    /\ UNCHANGED <<veVars, formVars>>
    /\ IsSome(lfReq) /\ Get(lfReq).op = "authWithPassword"
    /\ Get(lfReq).password = CorrectPassword
    /\ AuthStoreSave(RecordOf(Get(lfReq).email))
    /\ userEmail' = Get(lfReq).email
    /\ lfReq' = Some([op |-> "requestOTP", email |-> Get(lfReq).email])
    /\ ev' = "authWithPassword:ok"
    /\ UNCHANGED <<srvOtps, srvVerified, isLoading, route, lfError, lfIsLoading, existingUser,
                   showOtpForm, otpId, isLoadingOtp, otpReq, flow>>

\* authWithPassword rejects: catch and finally of onSubmit
AuthWithPasswordErr(kind) ==
    /\ UNCHANGED <<veVars, formVars>>
    /\ IsSome(lfReq) /\ Get(lfReq).op = "authWithPassword"
    /\ lfError' = Some(OnSubmitErrorMessage(kind))
    /\ lfIsLoading' = FALSE
    /\ lfReq' = None
    /\ ev' = "authWithPassword:err"
    /\ UNCHANGED <<sessVars, existingUser, showOtpForm, otpId, userEmail, isLoadingOtp, otpReq, flow>>

\* requestOTP of onSubmit resolves with a fresh otpId
RequestOTPOk ==
    /\ UNCHANGED <<veVars, formVars>>
    /\ IsSome(lfReq) /\ Get(lfReq).op = "requestOTP"
    /\ Len(srvOtps) < MaxOtp
    /\ srvOtps' = Append(srvOtps, Get(lfReq).email)
    /\ otpId' = Some(Len(srvOtps) + 1)
    /\ showOtpForm' = TRUE
    /\ lfIsLoading' = FALSE
    /\ lfReq' = None
    /\ flow' = [flow EXCEPT !.lastIssued = Some(Len(srvOtps) + 1), !.abandoned = FALSE,
                            !.resent = FALSE, !.preResend = None, !.resendStart = None,
                            !.failed = FALSE, !.retried = FALSE]
    /\ ev' = "requestOTP:ok"
    /\ UNCHANGED <<authStore, pocketbase_auth, srvVerified, user, isLoading, route, lfError, existingUser,
                   userEmail, isLoadingOtp, otpReq>>

\* requestOTP of onSubmit rejects: catch and finally of onSubmit
RequestOTPErr(kind) ==
    /\ UNCHANGED <<veVars, formVars>>
    /\ IsSome(lfReq) /\ Get(lfReq).op = "requestOTP"
    /\ lfError' = Some(OnSubmitErrorMessage(kind))
    /\ lfIsLoading' = FALSE
    /\ lfReq' = None
    /\ ev' = "requestOTP:err"
    /\ UNCHANGED <<sessVars, existingUser, showOtpForm, otpId, userEmail, isLoadingOtp, otpReq, flow>>

\* onOtpSubmit without its "if (!otpId)" guard
OnOtpSubmit_NoGuard(otp) ==
    /\ UNCHANGED <<veVars, formVars>>
    /\ ev' = "onOtpSubmit"
    /\ isLoadingOtp' = TRUE
    /\ lfError' = None
    /\ otpReq' = Some([op |-> "authWithOTP", otpId |-> IF IsSome(otpId) THEN Get(otpId) ELSE 0,
                       otp |-> otp])
    /\ flow' = [flow EXCEPT !.retried = flow.failed]
    /\ UNCHANGED <<sessVars, lfIsLoading, existingUser, showOtpForm, otpId, userEmail, lfReq>>

\* onOtpSubmit, up to the await of authWithOTP
OnOtpSubmit(otp) ==
    /\ UNCHANGED <<veVars, formVars>>
    /\ ev' = "onOtpSubmit"
    /\ IF ~IsSome(otpId)
       THEN /\ lfError' = Some(MsgAuthError)
            /\ UNCHANGED <<isLoadingOtp, otpReq, flow>>
       ELSE /\ isLoadingOtp' = TRUE
            /\ lfError' = None
            /\ otpReq' = Some([op |-> "authWithOTP", otpId |-> Get(otpId), otp |-> otp])
            /\ flow' = [flow EXCEPT !.retried = flow.failed]
    /\ UNCHANGED <<sessVars, lfIsLoading, existingUser, showOtpForm, otpId, userEmail, lfReq>>

\* the backend accepts a code for a challenge it issued when the code is that challenge's
BackendAcceptsOtp(id, otp) ==
    /\ id \in 1..Len(srvOtps)
    /\ otp = CodeOf(id)

\* authWithOTP resolves: the SDK saves the session, onOtpSubmit pushes /dashboard
AuthWithOTPOk ==
    /\ UNCHANGED <<veVars, formVars>>
    /\ IsSome(otpReq) /\ Get(otpReq).op = "authWithOTP"
    /\ BackendAcceptsOtp(Get(otpReq).otpId, Get(otpReq).otp)
    /\ AuthStoreSave(RecordOf(srvOtps[Get(otpReq).otpId]))
    /\ route' = "/dashboard"
    /\ isLoadingOtp' = FALSE
    /\ otpReq' = None
    /\ flow' = [flow EXCEPT !.otpOk = TRUE]
    /\ ev' = "authWithOTP:ok"
    /\ UNCHANGED <<srvOtps, srvVerified, isLoading, lfError, lfIsLoading, existingUser,
                   showOtpForm, otpId, userEmail, lfReq>>

\* the message the catch blocks of onOtpSubmit shows
OnOtpSubmitErrorMessage(kind) ==
    IF kind = "ClientResponseError" THEN ErrMessage ELSE MsgUnexpected

\* onOtpSubmit's rejection path without the finally block
AuthWithOTPErr_NoFinally(kind) ==
    /\ UNCHANGED <<veVars, formVars>>
    /\ IsSome(otpReq) /\ Get(otpReq).op = "authWithOTP"
    /\ lfError' = Some(OnOtpSubmitErrorMessage(kind))
    /\ otpReq' = None
    /\ flow' = [flow EXCEPT !.failed = TRUE]
    /\ ev' = "authWithOTP:err"
    /\ UNCHANGED <<sessVars, lfIsLoading, existingUser, showOtpForm, otpId, userEmail, lfReq,
                   isLoadingOtp>>

\* authWithOTP rejects (wrong or expired code, network): catch and finally of onOtpSubmit
AuthWithOTPErr(kind) ==
    /\ UNCHANGED <<veVars, formVars>>
    /\ IsSome(otpReq) /\ Get(otpReq).op = "authWithOTP"
    /\ lfError' = Some(OnOtpSubmitErrorMessage(kind))
    /\ isLoadingOtp' = FALSE
    /\ otpReq' = None
    /\ flow' = [flow EXCEPT !.failed = TRUE]
    /\ ev' = "authWithOTP:err"
    /\ UNCHANGED <<sessVars, lfIsLoading, existingUser, showOtpForm, otpId, userEmail, lfReq>>

\* handleResendOtp without setIsLoadingOtp(true)
HandleResendOtp_NotBusy ==
    /\ UNCHANGED <<veVars, formVars>>
    /\ ev' = "handleResendOtp"
    /\ IF userEmail = ""
       THEN UNCHANGED <<lfError, otpReq, flow>>
       ELSE /\ lfError' = None
            /\ otpReq' = Some([op |-> "requestOTP", email |-> userEmail])
            /\ flow' = [flow EXCEPT !.resendStart = otpId]
    /\ UNCHANGED <<sessVars, lfIsLoading, existingUser, showOtpForm, otpId, userEmail, lfReq,
                   isLoadingOtp>>

\* handleResendOtp, up to the await of requestOTP
HandleResendOtp ==
    /\ UNCHANGED <<veVars, formVars>>
    /\ ev' = "handleResendOtp"
    /\ IF userEmail = ""
       THEN UNCHANGED <<isLoadingOtp, lfError, otpReq, flow>>
       ELSE /\ isLoadingOtp' = TRUE
            /\ lfError' = None
            /\ otpReq' = Some([op |-> "requestOTP", email |-> userEmail])
            /\ flow' = [flow EXCEPT !.resendStart = otpId]
    /\ UNCHANGED <<sessVars, lfIsLoading, existingUser, showOtpForm, otpId, userEmail, lfReq>>

\* handleResendOtp's success path without setOtpId(result.otpId)
ResendOtpOk_KeepsOldId ==
    /\ UNCHANGED <<veVars, formVars>>
    /\ IsSome(otpReq) /\ Get(otpReq).op = "requestOTP"
    /\ Len(srvOtps) < MaxOtp
    /\ srvOtps' = Append(srvOtps, Get(otpReq).email)
    /\ lfError' = None
    /\ isLoadingOtp' = FALSE
    /\ otpReq' = None
    /\ flow' = [flow EXCEPT !.lastIssued = Some(Len(srvOtps) + 1), !.resent = TRUE,
                            !.preResend = otpId]
    /\ ev' = "resendOtp:ok"
    /\ UNCHANGED <<authStore, pocketbase_auth, srvVerified, user, isLoading, route, lfIsLoading, existingUser,
                   showOtpForm, userEmail, lfReq, otpId>>

\* requestOTP of handleResendOtp resolves with a fresh otpId
ResendOtpOk ==
    /\ UNCHANGED <<veVars, formVars>>
    /\ IsSome(otpReq) /\ Get(otpReq).op = "requestOTP"
    /\ Len(srvOtps) < MaxOtp
    /\ srvOtps' = Append(srvOtps, Get(otpReq).email)
    /\ otpId' = Some(Len(srvOtps) + 1)
    /\ lfError' = None
    /\ isLoadingOtp' = FALSE
    /\ otpReq' = None
    /\ flow' = [flow EXCEPT !.lastIssued = Some(Len(srvOtps) + 1), !.resent = TRUE,
                            !.preResend = otpId]
    /\ ev' = "resendOtp:ok"
    /\ UNCHANGED <<authStore, pocketbase_auth, srvVerified, user, isLoading, route, lfIsLoading, existingUser,
                   showOtpForm, userEmail, lfReq>>

\* the message the catch block of handleResendOtp shows
ResendOtpErrorMessage(kind) ==
    IF kind = "ClientResponseError" THEN ErrMessage ELSE MsgResendFailed

\* requestOTP of handleResendOtp rejects: catch and finally of handleResendOtp
ResendOtpErr(kind) ==
    /\ UNCHANGED <<veVars, formVars>>
    /\ IsSome(otpReq) /\ Get(otpReq).op = "requestOTP"
    /\ lfError' = Some(ResendOtpErrorMessage(kind))
    /\ isLoadingOtp' = FALSE
    /\ otpReq' = None
    /\ ev' = "resendOtp:err"
    /\ UNCHANGED <<sessVars, lfIsLoading, existingUser, showOtpForm, otpId, userEmail, lfReq, flow>>

\* handleBackToLogin without setOtpId(null)
HandleBackToLogin_KeepsOtpId ==
    /\ UNCHANGED <<veVars, formVars>>
    /\ showOtpForm' = FALSE
    /\ lfError' = None
    /\ flow' = [flow EXCEPT !.abandoned = TRUE]
    /\ ev' = "handleBackToLogin"
    /\ UNCHANGED <<sessVars, lfIsLoading, existingUser, userEmail, isLoadingOtp, lfReq, otpReq,
                   otpId>>

\* handleBackToLogin
HandleBackToLogin ==
    /\ UNCHANGED <<veVars, formVars>>
    /\ showOtpForm' = FALSE
    /\ otpId' = None
    /\ lfError' = None
    /\ flow' = [flow EXCEPT !.abandoned = TRUE]
    /\ ev' = "handleBackToLogin"
    /\ UNCHANGED <<sessVars, lfIsLoading, existingUser, userEmail, isLoadingOtp, lfReq, otpReq>>

\* handleContinueAsExistingUser
HandleContinueAsExistingUser ==
    /\ UNCHANGED <<veVars, formVars>>
    /\ LoginFormMounted /\ ~showOtpForm /\ IsSome(existingUser)
    /\ route' = "/dashboard"
    /\ ev' = "handleContinueAsExistingUser"
    /\ UNCHANGED <<authStore, pocketbase_auth, srvOtps, srvVerified, user, isLoading, loginVars, flow>>

\* the OTP step is rendered (showOtpForm branch of the JSX)
OtpStepShown == LoginFormMounted /\ showOtpForm
\* its three buttons are rendered with disabled={isLoadingOtp}
OtpButtonsEnabled == OtpStepShown /\ ~isLoadingOtp

\* no call of an earlier LoginForm is still awaited
NoPendingCall == lfReq = None /\ otpReq = None

\* the user opens /login from another screen: a new LoginForm is mounted
VisitLogin ==
    /\ UNCHANGED <<veVars, formVars>>
    /\ route # "/login"
    /\ NoPendingCall
    /\ route' = "/login"
    /\ MountLoginForm(authStore)
    /\ ev' = "visitLogin"
    /\ UNCHANGED <<authStore, pocketbase_auth, srvOtps, srvVerified, user, isLoading>>

-----------------------------------------------------------------------------
(* Browser: clock and localStorage strings *)

\* Cooldown time in seconds
RESEND_COOLDOWN == 30
\* Date.now() counts milliseconds; the page divides by 1000 and its interval is 1000 ms
MsPerSecond == 1000

DigitChars == <<"0", "1", "2", "3", "4", "5", "6", "7", "8", "9">>
DigitValue(c) == CHOOSE d \in 0..9 : DigitChars[d + 1] = c

\* Date.now().toString(): the decimal digits of a non-negative integer
RECURSIVE ToString(_)
ToString(n) ==
    IF n < 10 THEN <<DigitChars[n + 1]>>
    ELSE Append(ToString(n \div 10), DigitChars[(n % 10) + 1])

\* Number.parseInt of a string of decimal digits
RECURSIVE ParseInt(_)
ParseInt(str) ==
    IF Len(str) = 1 THEN DigitValue(str[1])
    ELSE 10 * ParseInt(SubSeq(str, 1, Len(str) - 1)) + DigitValue(str[Len(str)])

-----------------------------------------------------------------------------
(* VerifyEmailPage *)

VerifyEmailMounted == route = "/verify-email"

\* the useState initial values, and nothing awaited
PageDefaults ==
    [isResending |-> FALSE, isRefreshing |-> FALSE, resendStatus |-> None,
     refreshStatus |-> None, countdown |-> 0, initialEmailSent |-> FALSE,
     timer |-> None, autoReqs |-> 0, resendReq |-> FALSE]

Page ==
    [isResending |-> isResending, isRefreshing |-> isRefreshing, resendStatus |-> resendStatus,
     refreshStatus |-> refreshStatus, countdown |-> countdown,
     initialEmailSent |-> initialEmailSent, timer |-> timer, autoReqs |-> autoReqs,
     resendReq |-> resendReq]

\* the page as first rendered, before any effect
PageUnmounted ==
    /\ isResending = FALSE
    /\ isRefreshing = FALSE
    /\ resendStatus = None
    /\ refreshStatus = None
    /\ countdown = 0
    /\ initialEmailSent = FALSE
    /\ timer = None
    /\ autoReqs = 0
    /\ resendReq = FALSE

SetPage(pg) ==
    /\ isResending' = pg.isResending
    /\ isRefreshing' = pg.isRefreshing
    /\ resendStatus' = pg.resendStatus
    /\ refreshStatus' = pg.refreshStatus
    /\ countdown' = pg.countdown
    /\ initialEmailSent' = pg.initialEmailSent
    /\ timer' = pg.timer
    /\ autoReqs' = pg.autoReqs
    /\ resendReq' = pg.resendReq

\* a mount effect that restarts the full cooldown whenever a timestamp is stored
CountdownAtMount_Restarts(stored, t) == IF IsSome(stored) THEN RESEND_COOLDOWN ELSE 0

\* the countdown the mount effect leaves: the remaining seconds if positive, else the initial 0
CountdownAtMount(stored, t) ==
    IF IsSome(stored)
    THEN LET elapsedSeconds == (t - ParseInt(Get(stored))) \div MsPerSecond
             remainingSeconds == RESEND_COOLDOWN - elapsedSeconds
         IN  IF remainingSeconds > 0 THEN remainingSeconds ELSE 0
    ELSE 0

\* the countdown timer effect for a new countdown value: no interval at 0, else a new
\* interval due one second from now
TimerEffect_NoGuard(cd, t) == Some(t + MsPerSecond)
TimerEffect(cd, t) == IF cd <= 0 THEN None ELSE Some(t + MsPerSecond)

CountdownTick_ByTwo(prevCountdown) == IF prevCountdown <= 1 THEN 0 ELSE prevCountdown - 2

\* the interval's updater of countdown
CountdownTick(prevCountdown) == IF prevCountdown <= 1 THEN 0 ELSE prevCountdown - 1

\* where the routing effect leaves the user
VerifyEmailRouting_IgnoresVerified(u, loading) ==
    IF loading THEN "/verify-email"
    ELSE IF ~IsSome(u) THEN "/login"
    ELSE "/verify-email"
VerifyEmailRouting(u, loading) ==
    IF loading THEN "/verify-email"
    ELSE IF ~IsSome(u) THEN "/login"
    ELSE IF Get(u).verified THEN "/dashboard"
    ELSE "/verify-email"

\* the condition of sendInitialVerificationEmail
AutoSendDue(sent, u, loading) == ~sent /\ IsSome(u) /\ ~loading

\* the page after the auto-send effect ran again
AfterAutoSendEffect(pg, u) ==
    [pg EXCEPT !.autoReqs = IF AutoSendDue(pg.initialEmailSent, u, FALSE) THEN @ + 1 ELSE @]

\* the page state the mount effects leave at time t; firstUser and firstLoading are what
\* the first run of the effects sees, u what the AuthProvider holds once it is loaded
PageAtMount(stored, t, firstUser, firstLoading, u) ==
    LET cd == CountdownAtMount(stored, t)
        first == AutoSendDue(FALSE, firstUser, firstLoading)
        again == firstLoading /\ AutoSendDue(IsSome(stored), u, FALSE)
    IN  [PageDefaults EXCEPT !.countdown = cd,
                             !.initialEmailSent = IsSome(stored),
                             !.timer = TimerEffect(cd, t),
                             !.autoReqs = IF first \/ again THEN 1 ELSE 0]

\* The routing effect for AuthProvider user u and the page state pg, with store the auth
\* store then: the page stays, or it is unmounted (its interval is cleared by the effect's
\* cleanup, the calls it awaits go on without it) and /login mounts a LoginForm.
CommitVerifyEmail(u, pg, rfr, store) ==
    LET dest == VerifyEmailRouting(u, FALSE)
        awaited == pg.autoReqs + (IF pg.resendReq THEN 1 ELSE 0)
    IN  /\ orphanReqs + awaited <= MaxInFlight
        /\ route' = dest
        /\ IF dest = "/verify-email"
           THEN /\ SetPage(pg)
                /\ orphanReqs' = orphanReqs
                /\ refreshReq' = rfr
           ELSE /\ SetPage(PageDefaults)
                /\ orphanReqs' = orphanReqs + awaited
                /\ refreshReq' = IF IsSome(rfr) THEN Some([Get(rfr) EXCEPT !.live = FALSE]) ELSE None
        /\ IF dest = "/login" THEN MountLoginForm(store) ELSE UNCHANGED <<loginVars, flow>>

\* the DashboardLayout effect: no user -> /login, unverified user -> /verify-email, whose
\* page is then mounted under the loaded AuthProvider
DashboardLayoutEffect ==
    /\ route = "/dashboard" /\ ~isLoading
    /\ NoPendingCall
    /\ \/ /\ ~IsSome(user)
          /\ route' = "/login"
          /\ MountLoginForm(authStore)
          /\ UNCHANGED veVars
       \/ /\ IsSome(user) /\ ~Get(user).verified
          /\ CommitVerifyEmail(user, PageAtMount(lastVerificationEmailSent, now, user, FALSE, user),
                               refreshReq, authStore)
          /\ UNCHANGED <<now, lastVerificationEmailSent>>
    /\ ev' = "dashboardLayoutEffect"
    /\ UNCHANGED formVars
    /\ UNCHANGED <<authStore, pocketbase_auth, srvOtps, srvVerified, user, isLoading>>

\* /verify-email is loaded in the browser (opened or reloaded): pocketbase.ts restores the
\* store, the AuthProvider starts with user null and isLoading true, the page's effects
\* run, then the AuthProvider's; the handlers of the page before are gone
ReloadVerifyEmail ==
    /\ orphanReqs' = 0
    /\ refreshReq' = None
    /\ authStore' = RestoreAuth(pocketbase_auth).store
    /\ pocketbase_auth' = RestoreAuth(pocketbase_auth).entry
    /\ user' = UserOfStore(authStore')
    /\ isLoading' = FALSE
    /\ LET u == UserOfStore(authStore')
           pg == PageAtMount(lastVerificationEmailSent, now, None, TRUE, u)
           dest == VerifyEmailRouting(u, FALSE)
       IN  /\ route' = dest
           /\ SetPage(IF dest = "/verify-email" THEN pg ELSE PageDefaults)
           /\ MountLoginForm(authStore')
    /\ ev' = "reload"
    /\ UNCHANGED formVars
    /\ UNCHANGED <<srvOtps, srvVerified, now, lastVerificationEmailSent>>

\* a second passes; an interval callback that is due runs before the next second starts
Tick ==
    /\ now + MsPerSecond <= MaxNow * MsPerSecond
    /\ IsSome(timer) => now < Get(timer)
    /\ now' = now + MsPerSecond
    /\ ev' = "tick"
    /\ UNCHANGED formVars
    /\ UNCHANGED <<sessVars, loginVars, flow, lastVerificationEmailSent, isResending, isRefreshing,
                   resendStatus, refreshStatus, countdown, initialEmailSent, timer, autoReqs,
                   resendReq, orphanReqs, refreshReq>>

\* the interval callback of the countdown effect, and the effect's run for the new countdown
TimerFire ==
    /\ VerifyEmailMounted
    /\ IsSome(timer) /\ now >= Get(timer)
    /\ countdown' = CountdownTick(countdown)
    /\ timer' = TimerEffect(CountdownTick(countdown), now)
    /\ ev' = "interval"
    /\ UNCHANGED formVars
    /\ UNCHANGED <<sessVars, loginVars, flow, now, lastVerificationEmailSent, isResending,
                   isRefreshing, resendStatus, refreshStatus, initialEmailSent, autoReqs,
                   resendReq, orphanReqs, refreshReq>>

\* the page renders its card: not loading and a user
VerifyEmailShown == VerifyEmailMounted /\ ~isLoading /\ IsSome(user)

\* the resend button: disabled={isResending || isRefreshing || countdown > 0}
ResendEnabled == VerifyEmailShown /\ ~(isResending \/ isRefreshing \/ countdown > 0)

\* the refresh button: disabled={isResending || isRefreshing}
RefreshEnabled == VerifyEmailShown /\ ~(isResending \/ isRefreshing)

\* handleResendVerification, up to the await of requestVerification in resendVerification
HandleResendVerification ==
    /\ ResendEnabled
    /\ IF IsSome(user)
       THEN /\ orphanReqs + autoReqs + 1 <= MaxInFlight
            /\ isResending' = TRUE
            /\ resendStatus' = None
            /\ resendReq' = TRUE
       ELSE /\ isResending' = FALSE
            /\ resendStatus' = Some("failure")
            /\ resendReq' = FALSE
    /\ refreshStatus' = None
    /\ ev' = "handleResendVerification"
    /\ UNCHANGED formVars
    /\ UNCHANGED <<sessVars, loginVars, flow, now, lastVerificationEmailSent, isRefreshing,
                   countdown, initialEmailSent, timer, autoReqs, orphanReqs, refreshReq>>

\* requestVerification of handleResendVerification resolves
ResendVerificationOk ==
    /\ VerifyEmailMounted /\ resendReq
    /\ resendStatus' = Some("success")
    /\ lastVerificationEmailSent' = Some(ToString(now))
    /\ initialEmailSent' = TRUE
    /\ countdown' = RESEND_COOLDOWN
    /\ timer' = IF countdown = RESEND_COOLDOWN THEN timer ELSE TimerEffect(RESEND_COOLDOWN, now)
    /\ isResending' = FALSE
    /\ resendReq' = FALSE
    /\ ev' = "resendVerification:ok"
    /\ UNCHANGED formVars
    /\ UNCHANGED <<sessVars, loginVars, flow, now, isRefreshing, refreshStatus, autoReqs,
                   orphanReqs, refreshReq>>

\* the rejection path recording a send as the success path does
ResendVerificationErr_RecordsSend ==
    /\ VerifyEmailMounted /\ resendReq
    /\ resendStatus' = Some("failure")
    /\ lastVerificationEmailSent' = Some(ToString(now))
    /\ initialEmailSent' = TRUE
    /\ isResending' = FALSE
    /\ resendReq' = FALSE
    /\ ev' = "resendVerification:err"
    /\ UNCHANGED formVars
    /\ UNCHANGED <<sessVars, loginVars, flow, now, isRefreshing, refreshStatus, countdown, timer,
                   autoReqs, orphanReqs, refreshReq>>

\* requestVerification of handleResendVerification rejects
ResendVerificationErr ==
    /\ VerifyEmailMounted /\ resendReq
    /\ resendStatus' = Some("failure")
    /\ isResending' = FALSE
    /\ resendReq' = FALSE
    /\ ev' = "resendVerification:err"
    /\ UNCHANGED formVars
    /\ UNCHANGED <<sessVars, loginVars, flow, now, lastVerificationEmailSent, isRefreshing,
                   refreshStatus, countdown, initialEmailSent, timer, autoReqs, orphanReqs,
                   refreshReq>>

\* resendVerification of sendInitialVerificationEmail resolves
AutoSendOk ==
    /\ VerifyEmailMounted /\ autoReqs > 0
    /\ initialEmailSent' = TRUE
    /\ lastVerificationEmailSent' = Some(ToString(now))
    /\ autoReqs' = autoReqs - 1
    /\ ev' = "autoSend:ok"
    /\ UNCHANGED formVars
    /\ UNCHANGED <<sessVars, loginVars, flow, now, isResending, isRefreshing, resendStatus,
                   refreshStatus, countdown, timer, resendReq, orphanReqs, refreshReq>>

\* resendVerification of sendInitialVerificationEmail rejects: console.error only
AutoSendErr ==
    /\ VerifyEmailMounted /\ autoReqs > 0
    /\ autoReqs' = autoReqs - 1
    /\ ev' = "autoSend:err"
    /\ UNCHANGED formVars
    /\ UNCHANGED <<sessVars, loginVars, flow, now, lastVerificationEmailSent, isResending,
                   isRefreshing, resendStatus, refreshStatus, countdown, initialEmailSent, timer,
                   resendReq, orphanReqs, refreshReq>>

\* a requestVerification awaited by a handler of an unmounted page resolves: its setState
\* calls change nothing, its localStorage.setItem is done
OrphanSendOk ==
    /\ orphanReqs > 0
    /\ lastVerificationEmailSent' = Some(ToString(now))
    /\ orphanReqs' = orphanReqs - 1
    /\ ev' = "orphanSend:ok"
    /\ UNCHANGED formVars
    /\ UNCHANGED <<sessVars, loginVars, flow, now, isResending, isRefreshing, resendStatus,
                   refreshStatus, countdown, initialEmailSent, timer, autoReqs, resendReq,
                   refreshReq>>

\* a requestVerification awaited by a handler of an unmounted page rejects
OrphanSendErr ==
    /\ orphanReqs > 0
    /\ orphanReqs' = orphanReqs - 1
    /\ ev' = "orphanSend:err"
    /\ UNCHANGED formVars
    /\ UNCHANGED <<sessVars, loginVars, flow, now, lastVerificationEmailSent, isResending,
                   isRefreshing, resendStatus, refreshStatus, countdown, initialEmailSent, timer,
                   autoReqs, resendReq, refreshReq>>

\* handleRefreshVerification, up to the await of authRefresh in refreshVerificationStatus
HandleRefreshVerification ==
    /\ RefreshEnabled
    /\ refreshReq = None
    /\ resendStatus' = None
    /\ IF ~IsSome(user) \/ ~IsSome(authStore)
       THEN /\ refreshStatus' = Some("notVerified")
            /\ isRefreshing' = FALSE
            /\ refreshReq' = None
       ELSE /\ refreshStatus' = None
            /\ isRefreshing' = TRUE
            /\ refreshReq' = Some([email |-> Get(authStore).email, live |-> TRUE])
    /\ ev' = "handleRefreshVerification"
    /\ UNCHANGED formVars
    /\ UNCHANGED <<sessVars, loginVars, flow, now, lastVerificationEmailSent, isResending,
                   countdown, initialEmailSent, timer, autoReqs, resendReq, orphanReqs>>

\* authRefresh resolves: the SDK saves the record, refreshVerificationStatus sets user and
\* returns record.verified; handleRefreshVerification pushes /dashboard or sets the status
AuthRefreshOk ==
    /\ IsSome(refreshReq)
    /\ LET record == RecordOf(Get(refreshReq).email)
           u == Some(record)
       IN  /\ AuthStoreSave(record)
           /\ IF VerifyEmailMounted
              THEN CommitVerifyEmail(u,
                      AfterAutoSendEffect(
                          IF Get(refreshReq).live
                          THEN [Page EXCEPT !.isRefreshing = FALSE,
                                            !.refreshStatus = IF record.verified THEN @
                                                              ELSE Some("notVerified")]
                          ELSE Page, u),
                      None, Some(record))
              ELSE /\ route' = IF record.verified THEN "/dashboard" ELSE route
                   /\ refreshReq' = None
                   /\ UNCHANGED <<loginVars, flow, isResending, isRefreshing, resendStatus,
                                  refreshStatus, countdown, initialEmailSent, timer, autoReqs,
                                  resendReq, orphanReqs>>
    /\ ev' = "authRefresh:ok"
    /\ UNCHANGED formVars
    /\ UNCHANGED <<srvOtps, srvVerified, isLoading, now, lastVerificationEmailSent>>

AuthRefreshErr_ClearsSession ==
    /\ IsSome(refreshReq)
    /\ refreshReq' = None
    /\ AuthStoreClear
    /\ ev' = "authRefresh:err"
    /\ UNCHANGED formVars
    /\ UNCHANGED <<srvOtps, srvVerified, isLoading, route, loginVars, flow, now,
                   lastVerificationEmailSent, isResending, isRefreshing, resendStatus,
                   refreshStatus, countdown, initialEmailSent, timer, autoReqs, resendReq,
                   orphanReqs>>

\* authRefresh rejects: refreshVerificationStatus returns false
AuthRefreshErr ==
    /\ IsSome(refreshReq)
    /\ refreshReq' = None
    /\ IF VerifyEmailMounted /\ Get(refreshReq).live
       THEN /\ refreshStatus' = Some("notVerified")
            /\ isRefreshing' = FALSE
       ELSE UNCHANGED <<refreshStatus, isRefreshing>>
    /\ ev' = "authRefresh:err"
    /\ UNCHANGED formVars
    /\ UNCHANGED <<sessVars, loginVars, flow, now, lastVerificationEmailSent, isResending,
                   resendStatus, countdown, initialEmailSent, timer, autoReqs, resendReq,
                   orphanReqs>>

\* refreshVerificationStatus called from a render without a user, or with a store that
\* holds no valid session: it returns false before any call
RefreshWithoutSession ==
    /\ ~IsSome(user) \/ ~IsSome(authStore)
    /\ ev' = "refreshVerificationStatus:false"
    /\ UNCHANGED <<sessVars, loginVars, veVars, formVars, flow>>

\* the backend marks an account verified (its emailed link was confirmed elsewhere)
BackendVerifies(email) ==
    /\ ~srvVerified[email]
    /\ srvVerified' = [srvVerified EXCEPT ![email] = TRUE]
    /\ ev' = "backendVerifies"
    /\ UNCHANGED formVars
    /\ UNCHANGED <<authStore, pocketbase_auth, srvOtps, user, isLoading, route, loginVars, flow, veVars>>

\* the logout button is rendered: the Navbar inside the DashboardLayout's content, or
\* Back to Login on the verify-email screen
LogoutShown ==
    /\ ~isLoading
    /\ IsSome(user)
    /\ \/ route = "/dashboard" /\ Get(user).verified
       \/ route = "/verify-email"

\* logout of the AuthProvider: authStore.clear(), router.push("/login")
Logout ==
    /\ LogoutShown
    /\ NoPendingCall
    /\ AuthStoreClear
    /\ IF VerifyEmailMounted
       THEN CommitVerifyEmail(None, Page, refreshReq, None)
       ELSE /\ route' = "/login"
            /\ MountLoginForm(None)
            /\ UNCHANGED <<isResending, isRefreshing, resendStatus, refreshStatus, countdown,
                           initialEmailSent, timer, autoReqs, resendReq, orphanReqs, refreshReq>>
    /\ ev' = "logout"
    /\ UNCHANGED formVars
    /\ UNCHANGED <<srvOtps, srvVerified, isLoading, now, lastVerificationEmailSent>>

-----------------------------------------------------------------------------
(* Link tokens: the strings the emailed links carry in ?token= *)

\* the claims object of a payload; "" and 0 are an absent member
NoClaims == [type |-> "", email |-> "", newEmail |-> "", exp |-> 0]

\* A token is a sequence of characters.  A character is the dot or a run of base64 text
\* taken as one unit and named by what atob and JSON.parse make of it:
\*   "object"  base64 of a JSON object, whose members are obj
\*   "null"    base64 of the JSON text null
\*   "text"    base64 of text that is not JSON
\*   "raw"     characters that are not base64
Dot == [k |-> ".", obj |-> NoClaims]
Blob(kind, obj) == [k |-> kind, obj |-> obj]

\* token.split(".")
RECURSIVE Split(_)
Split(str) ==
    IF Len(str) = 0 THEN << << >> >>
    ELSE LET rest == Split(Tail(str))
         IN  IF Head(str) = Dot THEN << << >> >> \o rest
             ELSE << <<Head(str)>> \o Head(rest) >> \o Tail(rest)

\* JSON.parse(atob(segment)): it throws, or it returns a value (<< >> for null).  The empty
\* segment decodes to the empty text, which is not JSON; so does a run of several units.
Decode(segment) ==
    IF Len(segment) = 1 /\ segment[1].k = "object"
    THEN [throws |-> FALSE, value |-> Some(segment[1].obj)]
    ELSE IF Len(segment) = 1 /\ segment[1].k = "null"
    THEN [throws |-> FALSE, value |-> None]
    ELSE [throws |-> TRUE, value |-> None]

TokenResult(valid, error, data) == [valid |-> valid, error |-> error, data |-> data]

\* a validateToken that only counts the segments
ValidateToken_CountsSegments(str, t) ==
    IF Len(Split(str)) # 3 THEN TokenResult(FALSE, "Invalid token format", None)
    ELSE TokenResult(TRUE, "", None)

\* validateToken of ConfirmEmailChangePage at Date.now() = t; reading a member of null
\* throws, and the catch returns "Token validation failed"
ValidateToken(str, t) ==
    LET parts == Split(str)
    IN  IF Len(parts) # 3 THEN TokenResult(FALSE, "Invalid token format", None)
        ELSE LET decoded == Decode(parts[2])
             IN  IF decoded.throws \/ ~IsSome(decoded.value)
                 THEN TokenResult(FALSE, "Token validation failed", None)
                 ELSE LET payload == Get(decoded.value)
                          nowSeconds == t \div MsPerSecond
                      IN  IF \/ payload.type = ""
                             \/ payload.type # "emailChange"
                             \/ payload.email = ""
                             \/ payload.newEmail = ""
                             \/ payload.exp = 0
                          THEN TokenResult(FALSE, "Invalid token structure", None)
                          ELSE IF payload.exp < nowSeconds
                          THEN TokenResult(FALSE, "Token expired", Some(payload))
                          ELSE TokenResult(TRUE, "", Some(payload))

\* !token: null or the empty string
TokenMissing(tok) == ~IsSome(tok) \/ Get(tok) = << >>

-----------------------------------------------------------------------------
(* The token screens *)

ConfirmVerificationMounted == route = "/confirm-verification"
ConfirmEmailChangeMounted == route = "/confirm-email-change"
ResetPasswordMounted == route = "/reset-password"

MsgVerificationTokenMissing == "Verification token is missing. Please check your email link."
MsgVerified == "Your email has been successfully verified! Please login to access your account."
MsgVerifyFailed == "Failed to verify your email. The token may be invalid or expired."
MsgChangeTokenMissing == "Email change token is missing. Please check your email link."
MsgChangeExpired == "Your email change link has expired. Please request a new email change."
MsgChangeInvalid == "Invalid email change link. Please request a new email change."
MsgChanged == "Your email has been successfully changed!"
MsgIncorrectPassword == "Incorrect password. Please try again."
MsgChangeFailed == "Failed to change your email. Please try again or contact support."
MsgResetTokenMissing == "Reset token is missing. Please check your email link."
MsgResetDone == "Your password has been reset successfully!"

\* nothing has happened yet on a freshly opened screen
NewLink ==
    [effects |-> FALSE,     \* the mount effect has run
     called |-> FALSE,      \* a confirmation call was sent to the backend
     accepted |-> None,     \* the token of the confirmation call the backend accepted
     cause |-> ""]          \* why the backend rejected the latest call

\* nothing has happened yet in a freshly mounted RegisterForm
NewReg == [submitted |-> FALSE]

\* no register form is in use: the useState initial values, nothing awaited
RegisterUnmounted ==
    /\ srvAccounts = Emails
    /\ regError = None
    /\ regIsLoading = FALSE
    /\ regReq = None
    /\ reg = NewReg

\* no token screen and no register form is in use
FormsUnmounted ==
    /\ token = None
    /\ status = "idle"
    /\ errorType = None
    /\ message = ""
    /\ isSubmitting = FALSE
    /\ tokenData = None
    /\ passwordError = None
    /\ linkReq = None
    /\ link = NewLink
    /\ RegisterUnmounted

\* a confirmation call as sent to the backend
LinkCall(op, tok, password) == [op |-> op, token |-> tok, password |-> password]

\* what a token screen step leaves alone
LinkFrame == UNCHANGED <<sessVars, loginVars, veVars, regVars, provVars, flow>>

\* ConfirmVerificationPage: the verifyEmail effect, up to the await of confirmVerification
VerifyEmail ==
    /\ ConfirmVerificationMounted /\ ~link.effects
    /\ IF TokenMissing(token)
       THEN /\ status' = "error"
            /\ message' = MsgVerificationTokenMissing
            /\ linkReq' = None
            /\ link' = [link EXCEPT !.effects = TRUE]
       ELSE /\ linkReq' = Some(LinkCall("confirmVerification", Get(token), ""))
            /\ link' = [link EXCEPT !.effects = TRUE, !.called = TRUE]
            /\ UNCHANGED <<status, message>>
    /\ ev' = "verifyEmail"
    /\ UNCHANGED <<token, errorType, isSubmitting, tokenData, passwordError>>
    /\ LinkFrame

\* confirmVerification resolves: the backend has marked the account of the token verified
ConfirmVerificationOk(email) ==
    /\ IsSome(linkReq) /\ Get(linkReq).op = "confirmVerification"
    /\ srvVerified' = [srvVerified EXCEPT ![email] = TRUE]
    /\ status' = "success"
    /\ message' = MsgVerified
    /\ linkReq' = None
    /\ link' = [link EXCEPT !.accepted = Some(Get(linkReq).token)]
    /\ ev' = "confirmVerification:ok"
    /\ UNCHANGED <<token, errorType, isSubmitting, tokenData, passwordError>>
    /\ UNCHANGED <<authStore, pocketbase_auth, srvOtps, user, isLoading, route, loginVars, veVars, regVars,
                   provVars, flow>>

\* confirmVerification rejects
ConfirmVerificationErr ==
    /\ IsSome(linkReq) /\ Get(linkReq).op = "confirmVerification"
    /\ status' = "error"
    /\ message' = MsgVerifyFailed
    /\ linkReq' = None
    /\ link' = [link EXCEPT !.cause = "token"]
    /\ ev' = "confirmVerification:err"
    /\ UNCHANGED <<token, errorType, isSubmitting, tokenData, passwordError>>
    /\ LinkFrame

\* a checkTokenValidity that takes a locally valid token as the confirmation itself
CheckTokenValidity_TrustsToken ==
    /\ ConfirmEmailChangeMounted /\ ~link.effects
    /\ IF TokenMissing(token)
       THEN /\ status' = "error"
            /\ errorType' = Some("invalid")
            /\ message' = MsgChangeTokenMissing
            /\ tokenData' = tokenData
       ELSE LET validation == ValidateToken(Get(token), now)
            IN  IF ~validation.valid
                THEN /\ status' = "error"
                     /\ errorType' = Some("invalid")
                     /\ tokenData' = tokenData
                     /\ message' = MsgChangeInvalid
                ELSE /\ tokenData' = validation.data
                     /\ status' = "success"
                     /\ UNCHANGED <<errorType, message>>
    /\ link' = [link EXCEPT !.effects = TRUE]
    /\ ev' = "checkTokenValidity"
    /\ UNCHANGED <<token, isSubmitting, passwordError, linkReq>>
    /\ LinkFrame

\* ConfirmEmailChangePage: the checkTokenValidity effect
CheckTokenValidity ==
    /\ ConfirmEmailChangeMounted /\ ~link.effects
    /\ IF TokenMissing(token)
       THEN /\ status' = "error"
            /\ errorType' = Some("invalid")
            /\ message' = MsgChangeTokenMissing
            /\ tokenData' = tokenData
       ELSE LET validation == ValidateToken(Get(token), now)
            IN  IF ~validation.valid
                THEN /\ status' = "error"
                     /\ IF validation.error = "Token expired" /\ IsSome(validation.data)
                        THEN /\ errorType' = Some("expired")
                             /\ tokenData' = validation.data
                             /\ message' = MsgChangeExpired
                        ELSE /\ errorType' = Some("invalid")
                             /\ tokenData' = tokenData
                             /\ message' = MsgChangeInvalid
                ELSE /\ tokenData' = validation.data
                     /\ status' = "password"
                     /\ UNCHANGED <<errorType, message>>
    /\ link' = [link EXCEPT !.effects = TRUE]
    /\ ev' = "checkTokenValidity"
    /\ UNCHANGED <<token, isSubmitting, passwordError, linkReq>>
    /\ LinkFrame

\* ConfirmEmailChangePage.onSubmit, up to the await of confirmEmailChange
EmailChangeOnSubmit(password) ==
    /\ ConfirmEmailChangeMounted /\ link.effects
    /\ linkReq = None
    /\ IF TokenMissing(token)
       THEN /\ status' = "error"
            /\ errorType' = Some("invalid")
            /\ message' = MsgChangeTokenMissing
            /\ UNCHANGED <<isSubmitting, passwordError, linkReq, link>>
       ELSE /\ isSubmitting' = TRUE
            /\ passwordError' = None
            /\ linkReq' = Some(LinkCall("confirmEmailChange", Get(token), password))
            /\ link' = [link EXCEPT !.called = TRUE]
            /\ UNCHANGED <<status, errorType, message>>
    /\ ev' = "emailChange:onSubmit"
    /\ UNCHANGED <<token, tokenData>>
    /\ LinkFrame

\* confirmEmailChange resolves; the backend accepts only with the account's password
ConfirmEmailChangeOk ==
    /\ IsSome(linkReq) /\ Get(linkReq).op = "confirmEmailChange"
    /\ Get(linkReq).password = CorrectPassword
    /\ status' = "success"
    /\ message' = MsgChanged
    /\ isSubmitting' = FALSE
    /\ linkReq' = None
    /\ link' = [link EXCEPT !.accepted = Some(Get(linkReq).token)]
    /\ ev' = "confirmEmailChange:ok"
    /\ UNCHANGED <<token, errorType, tokenData, passwordError>>
    /\ LinkFrame

\* The error of a rejected confirmEmailChange as onSubmit reads it: error.status, whether
\* error.message includes "password" or "Password", and whether the response data has a
\* password member with a message.
ChangeError(st, inMessage, inData) == [status |-> st, msgPassword |-> inMessage, dataPassword |-> inData]

\* The errors the catch block tells apart, by the cause of the rejection.  A wrong password
\* is a 400 that names the password, in its message or in a password member of its data.
\* A token the backend does not accept is a 400 that names the token and not the password.
\* Any other failure is no 400.
RejectionCauses == {"password", "token", "other"}
RejectionsOf(cause) ==
    IF cause = "password"
    THEN {ChangeError(400, m, d) : m \in BOOLEAN, d \in BOOLEAN} \ {ChangeError(400, FALSE, FALSE)}
    ELSE IF cause = "token" THEN {ChangeError(400, FALSE, FALSE)}
    ELSE {ChangeError(st, m, FALSE) : st \in {0, 500}, m \in BOOLEAN}

\* a catch block condition that reads the message only
IsPasswordError_MessageOnly(error) == error.status = 400 /\ error.msgPassword

\* the condition of the catch block for a password-related error
IsPasswordError(error) == error.status = 400 /\ (error.msgPassword \/ error.dataPassword)

\* confirmEmailChange rejects with error; a wrong password is the cause only of a call
\* that carried one
ConfirmEmailChangeErr(cause, error) ==
    /\ IsSome(linkReq) /\ Get(linkReq).op = "confirmEmailChange"
    /\ cause = "password" => Get(linkReq).password # CorrectPassword
    /\ IF IsPasswordError(error)
       THEN /\ passwordError' = Some(MsgIncorrectPassword)
            /\ UNCHANGED <<status, errorType, message>>
       ELSE /\ status' = "error"
            /\ errorType' = Some("other")
            /\ message' = MsgChangeFailed
            /\ passwordError' = passwordError
    /\ isSubmitting' = FALSE
    /\ linkReq' = None
    /\ link' = [link EXCEPT !.cause = cause]
    /\ ev' = "confirmEmailChange:err"
    /\ UNCHANGED <<token, tokenData>>
    /\ LinkFrame

\* the password form is rendered and its submit button enabled
EmailChangeSubmitEnabled == ConfirmEmailChangeMounted /\ status = "password" /\ ~isSubmitting

\* ResetPasswordPage: the token check effect
ResetTokenEffect ==
    /\ ResetPasswordMounted /\ ~link.effects
    /\ IF TokenMissing(token)
       THEN /\ status' = "error"
            /\ message' = MsgResetTokenMissing
       ELSE UNCHANGED <<status, message>>
    /\ link' = [link EXCEPT !.effects = TRUE]
    /\ ev' = "resetTokenEffect"
    /\ UNCHANGED <<token, errorType, isSubmitting, tokenData, passwordError, linkReq>>
    /\ LinkFrame

\* an onSubmit of ResetPasswordPage without its token guard
ResetOnSubmit_NoGuard(password) ==
    /\ ResetPasswordMounted /\ link.effects
    /\ linkReq = None
    /\ isSubmitting' = TRUE
    /\ linkReq' = Some(LinkCall("confirmPasswordReset",
                                 IF IsSome(token) THEN Get(token) ELSE << >>, password))
    /\ link' = [link EXCEPT !.called = TRUE]
    /\ ev' = "reset:onSubmit"
    /\ UNCHANGED <<token, status, message, errorType, tokenData, passwordError>>
    /\ LinkFrame

\* ResetPasswordPage.onSubmit, up to the await of confirmPasswordReset
ResetOnSubmit(password) ==
    /\ ResetPasswordMounted /\ link.effects
    /\ linkReq = None
    /\ IF TokenMissing(token)
       THEN /\ status' = "error"
            /\ message' = MsgResetTokenMissing
            /\ UNCHANGED <<isSubmitting, linkReq, link>>
       ELSE /\ isSubmitting' = TRUE
            /\ linkReq' = Some(LinkCall("confirmPasswordReset", Get(token), password))
            /\ link' = [link EXCEPT !.called = TRUE]
            /\ UNCHANGED <<status, message>>
    /\ ev' = "reset:onSubmit"
    /\ UNCHANGED <<token, errorType, tokenData, passwordError>>
    /\ LinkFrame

\* confirmPasswordReset resolves
ConfirmPasswordResetOk ==
    /\ IsSome(linkReq) /\ Get(linkReq).op = "confirmPasswordReset"
    /\ status' = "success"
    /\ message' = MsgResetDone
    /\ isSubmitting' = FALSE
    /\ linkReq' = None
    /\ link' = [link EXCEPT !.accepted = Some(Get(linkReq).token)]
    /\ ev' = "confirmPasswordReset:ok"
    /\ UNCHANGED <<token, errorType, tokenData, passwordError>>
    /\ LinkFrame

\* confirmPasswordReset rejects
ConfirmPasswordResetErr(kind) ==
    /\ IsSome(linkReq) /\ Get(linkReq).op = "confirmPasswordReset"
    /\ status' = "error"
    /\ message' = IF kind = "ClientResponseError" THEN ErrMessage ELSE MsgUnexpected
    /\ isSubmitting' = FALSE
    /\ linkReq' = None
    /\ link' = [link EXCEPT !.cause = IF kind = "ClientResponseError" THEN "token" ELSE "other"]
    /\ ev' = "confirmPasswordReset:err"
    /\ UNCHANGED <<token, errorType, tokenData, passwordError>>
    /\ LinkFrame

\* the reset form is rendered and its submit button enabled:
\* disabled={isSubmitting || status === "error" || !token}
ResetSubmitEnabled ==
    /\ ResetPasswordMounted
    /\ status # "success"
    /\ ~(isSubmitting \/ status = "error" \/ TokenMissing(token))

-----------------------------------------------------------------------------
(* RegisterForm and register of the AuthProvider *)

RegisterMounted == route = "/register"

\* an email with no account yet, besides the ones that have one
NewEmail == "c@example.com"
RegEmails == Emails \cup {NewEmail}

MsgEmailExists == "This email already exists."
\* err.response.data.email.message of another email error, a text chosen by the backend
MsgEmailOther == "err.response.data.email.message"

\* the record the backend returns for a newly created account
NewAccountRecord(email) == [email |-> email, verified |-> FALSE]

\* The errors a rejected create is caught as: a ClientResponseError whose data has the
\* email message "This email already exists.", one with another email message, one with
\* no email message, or an error that is no ClientResponseError.
CreateErrors == {"emailExists", "emailOther", "client", "other"}

\* a catch block of RegisterForm.onSubmit that shows err.message for every
\* ClientResponseError
RegisterErrorMessage_MessageOnly(error) ==
    IF error = "other" THEN MsgUnexpected ELSE ErrMessage

\* the message the catch block of RegisterForm.onSubmit shows
RegisterErrorMessage(error) ==
    IF error = "other" THEN MsgUnexpected
    ELSE IF error = "emailExists" THEN MsgEmailExists
    ELSE IF error = "emailOther" THEN MsgEmailOther
    ELSE ErrMessage

\* the history of a submission that has just started, with the session and screen it found
RegSubmitted(store, rt) ==
    [submitted |-> TRUE,
     preStore |-> store,        \* pb.authStore when the form was submitted
     preRoute |-> rt,           \* the screen then
     rejected |-> "",           \* the error create was rejected with
     created |-> FALSE,         \* create has succeeded
     loginCalled |-> FALSE,     \* login has been called
     loggedIn |-> FALSE,        \* the automatic login has succeeded
     requested |-> FALSE,       \* requestVerification was called for the new email
     requestFailed |-> FALSE,   \* that call was rejected
     caught |-> FALSE,          \* onSubmit's catch block ran
     navigated |-> FALSE]       \* onSubmit has pushed /dashboard

\* what a register step leaves alone
RegFrame == UNCHANGED <<srvOtps, srvVerified, isLoading, loginVars, tokVars, provVars, flow>>

\* the verify-email page state none of whose parts a step changes
PageKept ==
    UNCHANGED <<isResending, isRefreshing, resendStatus, refreshStatus, countdown,
                initialEmailSent, timer, autoReqs, resendReq, orphanReqs, refreshReq>>

\* RegisterForm.onSubmit, up to the await of create in register; the call keeps the user of
\* the AuthProvider render that made this register function
RegisterOnSubmit(email) ==
    /\ RegisterMounted /\ ~regIsLoading /\ regReq = None
    /\ regIsLoading' = TRUE
    /\ regError' = None
    /\ regReq' = Some([op |-> "create", email |-> email, user |-> user])
    /\ reg' = RegSubmitted(authStore, route)
    /\ ev' = "register:onSubmit"
    /\ PageKept
    /\ UNCHANGED <<authStore, pocketbase_auth, user, route, srvAccounts, now, lastVerificationEmailSent>>
    /\ RegFrame

\* create resolves: the backend has the account, register goes on to login
CreateOk ==
    /\ IsSome(regReq) /\ Get(regReq).op = "create"
    /\ Get(regReq).email \notin srvAccounts
    /\ srvAccounts' = srvAccounts \cup {Get(regReq).email}
    /\ regReq' = Some([Get(regReq) EXCEPT !.op = "authWithPassword"])
    /\ reg' = [reg EXCEPT !.created = TRUE, !.loginCalled = TRUE]
    /\ ev' = "create:ok"
    /\ PageKept
    /\ UNCHANGED <<authStore, pocketbase_auth, user, route, regError, regIsLoading, now, lastVerificationEmailSent>>
    /\ RegFrame

\* create rejects: register rethrows, catch and finally of onSubmit.  An email that has an
\* account is rejected as "emailExists", and only such an email is.
CreateErr(error) ==
    /\ IsSome(regReq) /\ Get(regReq).op = "create"
    /\ error = "emailExists" <=> Get(regReq).email \in srvAccounts
    /\ regError' = Some(RegisterErrorMessage(error))
    /\ regIsLoading' = FALSE
    /\ regReq' = None
    /\ reg' = [reg EXCEPT !.rejected = error, !.caught = TRUE]
    /\ ev' = "create:err"
    /\ PageKept
    /\ UNCHANGED <<authStore, pocketbase_auth, user, route, srvAccounts, now, lastVerificationEmailSent>>
    /\ RegFrame

\* authWithPassword of login resolves: the SDK saves the session, login pushes
\* /verify-email for the unverified account.  With no user in its closure register returns
\* and onSubmit pushes /dashboard; with one it awaits requestVerification while
\* /verify-email is mounted.
RegisterLoginOk ==
    /\ IsSome(regReq) /\ Get(regReq).op = "authWithPassword"
    /\ LET record == NewAccountRecord(Get(regReq).email)
       IN  /\ AuthStoreSave(record)
           /\ IF IsSome(Get(regReq).user)
              THEN /\ route' = "/verify-email"
                   /\ SetPage(PageAtMount(lastVerificationEmailSent, now,
                                          Some(record), FALSE, Some(record)))
                   /\ regReq' = Some([Get(regReq) EXCEPT !.op = "requestVerification"])
                   /\ reg' = [reg EXCEPT !.loggedIn = TRUE, !.requested = TRUE]
              ELSE /\ route' = "/dashboard"
                   /\ SetPage(Page)
                   /\ regReq' = None
                   /\ reg' = [reg EXCEPT !.loggedIn = TRUE, !.navigated = TRUE]
    /\ regError' = None
    /\ regIsLoading' = FALSE
    /\ ev' = "register:login:ok"
    /\ UNCHANGED <<srvAccounts, now, lastVerificationEmailSent, orphanReqs, refreshReq>>
    /\ RegFrame

\* authWithPassword of login rejects: login and register rethrow, catch and finally of
\* onSubmit
RegisterLoginErr(kind) ==
    /\ IsSome(regReq) /\ Get(regReq).op = "authWithPassword"
    /\ regError' = Some(RegisterErrorMessage(IF kind = "ClientResponseError" THEN "client"
                                             ELSE "other"))
    /\ regIsLoading' = FALSE
    /\ regReq' = None
    /\ reg' = [reg EXCEPT !.caught = TRUE]
    /\ ev' = "register:login:err"
    /\ PageKept
    /\ UNCHANGED <<authStore, pocketbase_auth, user, route, srvAccounts, now, lastVerificationEmailSent>>
    /\ RegFrame

\* requestVerification of register resolves: the timestamp is stored, register returns and
\* onSubmit pushes /dashboard, which unmounts the verify-email page
RegisterVerificationOk ==
    /\ IsSome(regReq) /\ Get(regReq).op = "requestVerification"
    /\ orphanReqs + autoReqs + (IF resendReq THEN 1 ELSE 0) <= MaxInFlight
    /\ lastVerificationEmailSent' = Some(ToString(now))
    /\ route' = "/dashboard"
    /\ SetPage(PageDefaults)
    /\ orphanReqs' = orphanReqs + autoReqs + (IF resendReq THEN 1 ELSE 0)
    /\ refreshReq' = IF IsSome(refreshReq) THEN Some([Get(refreshReq) EXCEPT !.live = FALSE])
                     ELSE None
    /\ regReq' = None
    /\ reg' = [reg EXCEPT !.navigated = TRUE]
    /\ ev' = "register:requestVerification:ok"
    /\ UNCHANGED <<authStore, pocketbase_auth, user, srvAccounts, regError, regIsLoading, now>>
    /\ RegFrame

\* requestVerification of register rejects: register rethrows and onSubmit's catch block
\* runs, in a RegisterForm that /verify-email has replaced; /dashboard is not pushed
RegisterVerificationErr ==
    /\ IsSome(regReq) /\ Get(regReq).op = "requestVerification"
    /\ regReq' = None
    /\ reg' = [reg EXCEPT !.requestFailed = TRUE, !.caught = TRUE]
    /\ ev' = "register:requestVerification:err"
    /\ PageKept
    /\ UNCHANGED <<authStore, pocketbase_auth, user, route, srvAccounts, regError, regIsLoading, now,
                   lastVerificationEmailSent>>
    /\ RegFrame

\* the user opens /register from the dashboard route: a new RegisterForm is mounted
VisitRegister ==
    /\ route = "/dashboard"
    /\ regReq = None
    /\ route' = "/register"
    /\ regError' = None
    /\ regIsLoading' = FALSE
    /\ regReq' = None
    /\ reg' = NewReg
    /\ ev' = "visitRegister"
    /\ PageKept
    /\ UNCHANGED <<authStore, pocketbase_auth, user, srvAccounts, now, lastVerificationEmailSent>>
    /\ RegFrame

-----------------------------------------------------------------------------
(* The login flow as the user drives it *)

Init ==
    /\ srvVerified \in [Emails -> BOOLEAN]
    /\ srvOtps = << >>
    /\ authStore \in {None} \cup {Some([email |-> e, verified |-> srvVerified[e]]) : e \in Emails}
    /\ user = UserOfStore(authStore)
    /\ pocketbase_auth = PersistAuth(authStore, None)
    /\ ProviderLoaded
    /\ isLoading = FALSE
    /\ route = "/login"
    /\ lfError = None
    /\ lfIsLoading = FALSE
    /\ existingUser = IF IsSome(authStore) THEN Some(Get(authStore).email) ELSE None
    /\ showOtpForm = FALSE
    /\ otpId = None
    /\ userEmail = ""
    /\ isLoadingOtp = FALSE
    /\ lfReq = None
    /\ otpReq = None
    /\ ev = "init"
    /\ flow = NewFlow(authStore)
    /\ now = MsPerSecond
    /\ lastVerificationEmailSent = None
    /\ PageUnmounted
    /\ orphanReqs = 0
    /\ refreshReq = None
    /\ FormsUnmounted

Submit == \E e \in Emails, p \in Passwords : OnSubmit(e, p)
PasswordRejected == \E k \in ErrorKinds : AuthWithPasswordErr(k)
IssueFailed == \E k \in ErrorKinds : RequestOTPErr(k)
Verify == \E c \in Codes : OtpButtonsEnabled /\ OnOtpSubmit(c)
VerifyFailed == \E k \in ErrorKinds : AuthWithOTPErr(k)
Resend == OtpButtonsEnabled /\ HandleResendOtp
ResendFailed == \E k \in ErrorKinds : ResendOtpErr(k)
Abandon == OtpButtonsEnabled /\ HandleBackToLogin

Next ==
    \/ Submit
    \/ AuthWithPasswordOk
    \/ PasswordRejected
    \/ RequestOTPOk
    \/ IssueFailed
    \/ Verify
    \/ AuthWithOTPOk
    \/ VerifyFailed
    \/ Resend
    \/ ResendOtpOk
    \/ ResendFailed
    \/ Abandon
    \/ HandleContinueAsExistingUser
    \/ VisitLogin
    \/ Logout

Spec == Init /\ [][Next]_vars

\* the controller's operations called directly: verify is also called while the OTP
\* step is not shown
VerifyUnshown == \E c \in Codes : LoginFormMounted /\ ~showOtpForm /\ OnOtpSubmit(c)

NextCtl == Next \/ VerifyUnshown

SpecCtl == Init /\ [][NextCtl]_vars

-----------------------------------------------------------------------------
(* The verify-email screen as the user and the clock drive it *)

\* the app is loaded at /dashboard with or without the session of an unverified account;
\* an earlier visit may have left a last-sent timestamp
InitVerify ==
    /\ srvVerified = [e \in Emails |-> FALSE]
    /\ srvOtps = << >>
    /\ authStore \in {None, Some([email |-> "a@example.com", verified |-> FALSE])}
    /\ user = UserOfStore(authStore)
    /\ pocketbase_auth = PersistAuth(authStore, None)
    /\ ProviderLoaded
    /\ isLoading = FALSE
    /\ route = "/dashboard"
    /\ lfError = None
    /\ lfIsLoading = FALSE
    /\ existingUser = None
    /\ showOtpForm = FALSE
    /\ otpId = None
    /\ userEmail = ""
    /\ isLoadingOtp = FALSE
    /\ lfReq = None
    /\ otpReq = None
    /\ ev = "init"
    /\ flow = NewFlow(authStore)
    /\ now = MsPerSecond
    /\ lastVerificationEmailSent \in {None, Some(ToString(0)), Some(ToString(MsPerSecond \div 2))}
    /\ PageUnmounted
    /\ orphanReqs = 0
    /\ refreshReq = None
    /\ FormsUnmounted

BackendVerifiesUser == \E e \in Emails : IsSome(authStore) /\ Get(authStore).email = e /\ BackendVerifies(e)

NextVerify ==
    \/ DashboardLayoutEffect
    \/ ReloadVerifyEmail
    \/ Tick
    \/ TimerFire
    \/ HandleResendVerification
    \/ ResendVerificationOk
    \/ ResendVerificationErr
    \/ AutoSendOk
    \/ AutoSendErr
    \/ OrphanSendOk
    \/ OrphanSendErr
    \/ Logout

SpecVerify == InitVerify /\ [][NextVerify]_vars

\* the browser's clock advances and a due interval callback is run
SpecVerifyFair ==
    /\ SpecVerify
    /\ WF_vars(Tick)
    /\ WF_vars(TimerFire)

\* the same with the "I've Verified My Email" check and the backend verifying the account
NextVerifyRefresh ==
    \/ NextVerify
    \/ HandleRefreshVerification
    \/ AuthRefreshOk
    \/ AuthRefreshErr
    \/ BackendVerifiesUser

SpecVerifyRefresh == InitVerify /\ [][NextVerifyRefresh]_vars

-----------------------------------------------------------------------------
(* Login flow and challenge-response controller: claims C1, C3 - C8 *)

VerifyInFlight == IsSome(otpReq) /\ Get(otpReq).op = "authWithOTP"
ResendInFlight == IsSome(otpReq) /\ Get(otpReq).op = "requestOTP"

\* C1: from an anonymous start, as long as credentials have been submitted and no
\* authWithOTP call has succeeded, the auth store holds no session and user is null.
C1_SessionOnlyAfterOtp ==
    (flow.anon /\ flow.creds /\ ~flow.otpOk) => (authStore = None /\ user = None)

\* C3: a verify carries the otpId of the most recent successful requestOTP, never the
\* one a successful resend replaced; a code of the replaced challenge is then checked
\* against the new id and cannot be accepted.
C3_VerifySubmitsLatestChallenge ==
    VerifyInFlight =>
        /\ Some(Get(otpReq).otpId) = flow.lastIssued
        /\ flow.resent =>
              /\ Some(Get(otpReq).otpId) # flow.preResend
              /\ Get(otpReq).otp = CodeOf(Get(flow.preResend))
                    => ~BackendAcceptsOtp(Get(otpReq).otpId, Get(otpReq).otp)

\* a verify with the code of the replaced challenge is awaited after a successful resend
C3_Witness ==
    /\ LoginFormMounted /\ VerifyInFlight /\ flow.resent
    /\ Get(otpReq).otp = CodeOf(Get(flow.preResend))

\* C4: from the start of a resend on, and after a resend that failed, the otpId held
\* before the resend is no longer held.
C4_ResendDiscardsHeldChallenge ==
    (LoginFormMounted /\ (ResendInFlight \/ ev = "resendOtp:err")) => otpId # flow.resendStart

\* C5: a verify called while no challenge is held sets the state error and nothing else:
\* no call is started, the challenge id, the form shown and the session stay as they are.
C5_VerifyWithoutChallenge ==
    [][(ev' = "onOtpSubmit" /\ ~IsSome(otpId)) =>
          /\ lfError' = Some(MsgAuthError)
          /\ otpReq' = None /\ otpReq = None
          /\ otpId' = otpId
          /\ showOtpForm' = showOtpForm
          /\ isLoadingOtp' = isLoadingOtp
          /\ authStore' = authStore /\ user' = user /\ route' = route]_vars

\* verify was called before any challenge was issued
C5_Witness ==
    /\ ev = "onOtpSubmit" /\ ~IsSome(otpId) /\ ~IsSome(flow.lastIssued)
    /\ lfError = Some(MsgAuthError)

\* C6: a failed verify leaves the OTP step shown with the same challenge id, navigates
\* nowhere, sets an error and leaves verify enabled again.
C6_VerifyFailureAllowsRetry ==
    [][ev' = "authWithOTP:err" =>
          /\ showOtpForm /\ showOtpForm'
          /\ IsSome(otpId) /\ otpId' = otpId
          /\ route' = route
          /\ IsSome(lfError')
          /\ OtpButtonsEnabled']_vars

\* a verify submitted after a failed one has failed as well
C6_Witness ==
    ev = "authWithOTP:err" /\ flow.retried /\ OtpButtonsEnabled /\ IsSome(lfError)

\* C7: after the password was accepted and requestOTP failed, the OTP step is not shown,
\* no challenge id is held and the message is not the one of rejected credentials.
C7_IssueFailureDistinct ==
    (LoginFormMounted /\ ev = "requestOTP:err") =>
        /\ ~showOtpForm
        /\ ~IsSome(otpId)
        /\ lfError # Some(MsgInvalidCredentials)

\* C8: Back to Login ends with no challenge id, no error and the credential form shown,
\* and from then on no authWithOTP call is awaited until a requestOTP of onSubmit succeeds.
C8_AbandonDiscardsChallenge ==
    /\ [][ev' = "handleBackToLogin" =>
             /\ ~IsSome(otpId') /\ ~IsSome(lfError') /\ ~showOtpForm'
             /\ LoginFormMounted']_vars
    /\ [](flow.abandoned => ~VerifyInFlight)

\* after failed verifies and a resend the step was abandoned, and verify was called again
C8_Witness ==
    /\ flow.abandoned /\ flow.failed /\ flow.resent
    /\ ev = "onOtpSubmit" /\ ~IsSome(otpId) /\ ~VerifyInFlight

-----------------------------------------------------------------------------
(* The token screens as the user and the backend drive them *)

ClaimsSet ==
    [type : {"", "emailChange", "verification"}, email : {"", "a@example.com"},
     newEmail : {"", "b@example.com"}, exp : 0..MaxExp]

Units == {Blob("object", c) : c \in ClaimsSet}
         \cup {Blob("null", NoClaims), Blob("text", NoClaims), Blob("raw", NoClaims)}

\* the header and the signature of a JWT
Header == Blob("object", NoClaims)
Signature == Blob("raw", NoClaims)

\* strings of one to four segments around each unit, and one with an empty middle segment
Tokens ==
    {<<u>> : u \in Units}
    \cup {<<Header, Dot, u>> : u \in Units}
    \cup {<<Header, Dot, u, Dot, Signature>> : u \in Units}
    \cup {<<Header, Dot, u, Dot, Signature, Dot, Signature>> : u \in Units}
    \cup {<<Header, Dot, Dot, Signature>>}

\* what ?token= can be: absent, empty, or a string
UrlTokens == {None, Some(<< >>)} \cup {Some(t) : t \in Tokens}

LinkRoutes == {"/confirm-verification", "/confirm-email-change", "/reset-password"}

\* a token screen as first rendered, before its effect: the useState initial values
LinkRendered(rt, tok) ==
    /\ token = tok
    /\ status = IF rt = "/reset-password" THEN "idle" ELSE "loading"
    /\ errorType = None
    /\ message = ""
    /\ isSubmitting = FALSE
    /\ tokenData = None
    /\ passwordError = None
    /\ linkReq = None
    /\ link = NewLink

InitLink ==
    /\ srvVerified = [e \in Emails |-> FALSE]
    /\ srvOtps = << >>
    /\ authStore = None
    /\ pocketbase_auth = None
    /\ ProviderLoaded
    /\ user = None
    /\ isLoading = FALSE
    /\ route \in LinkRoutes
    /\ lfError = None
    /\ lfIsLoading = FALSE
    /\ existingUser = None
    /\ showOtpForm = FALSE
    /\ otpId = None
    /\ userEmail = ""
    /\ isLoadingOtp = FALSE
    /\ lfReq = None
    /\ otpReq = None
    /\ ev = "init"
    /\ flow = NewFlow(authStore)
    /\ now \in {2 * MsPerSecond, 2 * MsPerSecond + MsPerSecond \div 2}
    /\ lastVerificationEmailSent = None
    /\ PageUnmounted
    /\ orphanReqs = 0
    /\ refreshReq = None
    /\ \E tok \in UrlTokens : LinkRendered(route, tok)
    /\ RegisterUnmounted

ConfirmVerificationAccepted == \E e \in Emails : ConfirmVerificationOk(e)
SubmitEmailChange == \E p \in Passwords : EmailChangeSubmitEnabled /\ EmailChangeOnSubmit(p)
EmailChangeRejected ==
    \E cause \in RejectionCauses : \E error \in RejectionsOf(cause) :
        ConfirmEmailChangeErr(cause, error)
SubmitReset == ResetSubmitEnabled /\ ResetOnSubmit(CorrectPassword)
ResetRejected == \E k \in ErrorKinds : ConfirmPasswordResetErr(k)

NextLink ==
    \/ VerifyEmail
    \/ ConfirmVerificationAccepted
    \/ ConfirmVerificationErr
    \/ CheckTokenValidity
    \/ SubmitEmailChange
    \/ ConfirmEmailChangeOk
    \/ EmailChangeRejected
    \/ ResetTokenEffect
    \/ SubmitReset
    \/ ConfirmPasswordResetOk
    \/ ResetRejected

SpecLink == InitLink /\ [][NextLink]_vars

\* the same, and the submit handlers called while their form is not rendered or its button
\* is disabled
EmailChangeSubmitUnshown ==
    \E p \in Passwords : ~EmailChangeSubmitEnabled /\ EmailChangeOnSubmit(p)
ResetSubmitUnshown == ~ResetSubmitEnabled /\ ResetOnSubmit(CorrectPassword)

NextLinkCtl == NextLink \/ EmailChangeSubmitUnshown \/ ResetSubmitUnshown

SpecLinkCtl == InitLink /\ [][NextLinkCtl]_vars

-----------------------------------------------------------------------------
(* The register form as the user and the backend drive it *)

InitRegister ==
    /\ srvVerified = [e \in Emails |-> FALSE]
    /\ srvOtps = << >>
    /\ authStore \in {None, Some([email |-> "a@example.com", verified |-> FALSE])}
    /\ user = UserOfStore(authStore)
    /\ pocketbase_auth = PersistAuth(authStore, None)
    /\ ProviderLoaded
    /\ isLoading = FALSE
    /\ route = "/register"
    /\ lfError = None
    /\ lfIsLoading = FALSE
    /\ existingUser = None
    /\ showOtpForm = FALSE
    /\ otpId = None
    /\ userEmail = ""
    /\ isLoadingOtp = FALSE
    /\ lfReq = None
    /\ otpReq = None
    /\ ev = "init"
    /\ flow = NewFlow(authStore)
    /\ now = MsPerSecond
    /\ lastVerificationEmailSent = None
    /\ PageUnmounted
    /\ orphanReqs = 0
    /\ refreshReq = None
    /\ FormsUnmounted

SubmitRegister == \E e \in RegEmails : RegisterOnSubmit(e)
CreateRejected == \E error \in CreateErrors : CreateErr(error)
RegisterLoginRejected == \E k \in ErrorKinds : RegisterLoginErr(k)

NextRegister ==
    \/ SubmitRegister
    \/ CreateOk
    \/ CreateRejected
    \/ RegisterLoginOk
    \/ RegisterLoginRejected
    \/ RegisterVerificationOk
    \/ RegisterVerificationErr
    \/ VisitRegister
    \/ Tick

SpecRegister == InitRegister /\ [][NextRegister]_vars

-----------------------------------------------------------------------------
(* Resend throttle of the verify-email screen *)

\* the time of the last recorded send, in ms, and the ms since then
LastSentAt == ParseInt(Get(lastVerificationEmailSent))
SinceLastSent == now - LastSentAt
WindowMs == RESEND_COOLDOWN * MsPerSecond

\* no interval callback is due and not yet run
TimerSettled == IsSome(timer) => now < Get(timer)

\* the page was mounted by the last step, from a stored timestamp
MountedFromStored ==
    /\ ev \in {"reload", "dashboardLayoutEffect"}
    /\ VerifyEmailMounted
    /\ IsSome(lastVerificationEmailSent)

\* C2: on the verify-email screen, whenever a last-sent timestamp is persisted and less than
\* 30 seconds have passed since it, the resend button is disabled by a countdown above 0,
\* whichever path recorded the timestamp.
C2_ResendDisabledInWindow ==
    (VerifyEmailShown /\ IsSome(lastVerificationEmailSent) /\ SinceLastSent < WindowMs)
        => (countdown > 0 /\ ~ResendEnabled)

\* C9: with a send recorded at T, the screen shows 20 remaining seconds and a disabled resend
\* button at T + 10 s, and at T + 30 s or later it shows 0 and, with no call in flight, an
\* enabled resend button.
C9_RemainingAtTenAndThirty ==
    (VerifyEmailShown /\ IsSome(lastVerificationEmailSent) /\ TimerSettled)
        => /\ SinceLastSent = 10 * MsPerSecond => (countdown = 20 /\ ~ResendEnabled)
           /\ SinceLastSent >= WindowMs
                 => /\ countdown = 0
                    /\ (~isResending /\ ~isRefreshing) => ResendEnabled

\* C10: a verify-email screen mounted e seconds after the stored timestamp starts its
\* countdown at 30 - e for 0 <= e < 30 and at 0 for e >= 30; between whole seconds it starts
\* at the remaining time rounded up to a second.  It never restarts at 30 unless e < 1.
C10_CountdownResumesAtMount ==
    MountedFromStored
        => IF SinceLastSent >= WindowMs
           THEN countdown = 0
           ELSE /\ countdown * MsPerSecond >= WindowMs - SinceLastSent
                /\ (countdown - 1) * MsPerSecond < WindowMs - SinceLastSent
                /\ SinceLastSent % MsPerSecond = 0
                      => countdown = RESEND_COOLDOWN - SinceLastSent \div MsPerSecond

\* a reload 10 s after the stored timestamp starts the countdown at 20
C10_Witness ==
    /\ MountedFromStored
    /\ ev = "reload"
    /\ SinceLastSent = 10 * MsPerSecond
    /\ countdown = 20

\* the requestVerification calls the mounted page awaits
SendsAwaited == autoReqs + (IF resendReq THEN 1 ELSE 0)

\* C11: a verify-email screen mounted while a lastVerificationEmailSent timestamp is stored
\* makes no automatic requestVerification call, also when the user is loaded at mount.
C11_NoAutoSendWhenRecorded == MountedFromStored => autoReqs = 0

\* C12: the verify-email screen awaits at most one requestVerification at any time, the
\* automatic send and manual resends counted together.
C12_OneSendOutstanding == VerifyEmailMounted => SendsAwaited <= 1

-----------------------------------------------------------------------------
(* Token screens *)

\* the make-up of a token string, read off its characters
DotCount(str) == Cardinality({i \in 1..Len(str) : str[i] = Dot})
FirstDot(str) == CHOOSE i \in 1..Len(str) : str[i] = Dot /\ \A j \in 1..(i - 1) : str[j] # Dot
LastDot(str) == CHOOSE i \in 1..Len(str) : str[i] = Dot /\ \A j \in (i + 1)..Len(str) : str[j] # Dot
MiddleSegment(str) == SubSeq(str, FirstDot(str) + 1, LastDot(str) - 1)
IsJsonSegment(segment) == Len(segment) = 1 /\ segment[1].k \in {"object", "null"}

\* not three dot-separated segments, or a middle segment that does not decode to JSON
Malformed(str) == DotCount(str) # 2 \/ ~IsJsonSegment(MiddleSegment(str))

\* three segments whose middle one is an email-change claims object with every member
StructurallyValid(str) ==
    /\ DotCount(str) = 2
    /\ Len(MiddleSegment(str)) = 1
    /\ LET unit == MiddleSegment(str)[1]
       IN  /\ unit.k = "object"
           /\ unit.obj.type = "emailChange"
           /\ unit.obj.email # ""
           /\ unit.obj.newEmail # ""
           /\ unit.obj.exp > 0
ClaimsIn(str) == MiddleSegment(str)[1].obj

\* C13: the confirm-email-change screen shows success only when the backend has accepted a
\* confirmEmailChange call made with the token of the URL; a rejected call never leaves it
\* at success, whatever the local check said.
C13_SuccessOnlyFromBackend ==
    ConfirmEmailChangeMounted
        => /\ status = "success" => (IsSome(link.accepted) /\ link.accepted = token)
           /\ ev = "confirmEmailChange:err" => status # "success"

\* the backend accepted the call for a token that passed the local check
C13_Witness ==
    /\ ConfirmEmailChangeMounted
    /\ status = "success"
    /\ ev = "confirmEmailChange:ok"
    /\ ValidateToken(Get(token), now).valid

\* C14: for a structurally valid email-change token with exp <= now (in whole seconds,
\* exp = now included) the token check ends in the expired error and keeps the decoded
\* claims for the from/to context, and the password step is not shown.
C14_ExpiredReported ==
    (/\ ConfirmEmailChangeMounted /\ link.effects
     /\ IsSome(token) /\ StructurallyValid(Get(token))
     /\ ClaimsIn(Get(token)).exp <= now \div MsPerSecond)
        => /\ status = "error"
           /\ errorType = Some("expired")
           /\ tokenData = Some(ClaimsIn(Get(token)))

\* C15: for a token string that is not three dot-separated segments, or whose middle
\* segment does not decode to JSON, the screen never shows the password step and, once the
\* check has run, is in status error with error type invalid.
C15_MalformedIsInvalid ==
    (ConfirmEmailChangeMounted /\ IsSome(token) /\ Malformed(Get(token)))
        => /\ status # "password"
           /\ link.effects => (status = "error" /\ errorType = Some("invalid"))

\* the check has run on three segments whose middle one is base64 of text that is not JSON
C15_Witness ==
    /\ ConfirmEmailChangeMounted /\ link.effects
    /\ IsSome(token) /\ DotCount(Get(token)) = 2
    /\ MiddleSegment(Get(token)) = <<Blob("text", NoClaims)>>
    /\ status = "error"

C17_FailureIsReenterable ==
    ev \in {"confirmVerification:err", "confirmEmailChange:err", "confirmPasswordReset:err"}
        => (EmailChangeSubmitEnabled \/ ResetSubmitEnabled)

\* C18: on a token screen opened without a token no confirmation call is ever made, and
\* once its effect has run the screen is in the error state, whatever is submitted.
C18_NoTokenNoCall ==
    (route \in LinkRoutes /\ TokenMissing(token))
        => /\ linkReq = None
           /\ ~link.called
           /\ link.effects => status = "error"

\* the reset form's handler was called on a screen without a token
C18_Witness ==
    /\ ResetPasswordMounted
    /\ TokenMissing(token)
    /\ ev = "reset:onSubmit"

-----------------------------------------------------------------------------
(* Register flow *)

\* C19: once create and the automatic login have succeeded, requestVerification is called
\* for the new email before /dashboard is pushed, and a rejection of that call does not
\* take onSubmit into its catch block.
C19_VerificationRequestedBeforeDashboard ==
    reg.submitted
        => /\ (reg.created /\ reg.loggedIn /\ reg.navigated) => reg.requested
           /\ reg.requestFailed => ~reg.caught

\* C20: when create is rejected because the email has an account, the form shows
\* "This email already exists.", login has not been called, pb.authStore is what it was
\* when the form was submitted and the screen is still /register.
C20_EmailExistsIsReported ==
    (reg.submitted /\ reg.rejected = "emailExists")
        => /\ regError = Some("This email already exists.")
           /\ ~reg.loginCalled
           /\ regReq = None
           /\ authStore = reg.preStore
           /\ route = "/register"
           /\ ~reg.navigated

\* create was rejected for an email that has an account
C20_Witness ==
    /\ RegisterMounted
    /\ ev = "create:err"
    /\ reg.rejected = "emailExists"
    /\ ~regIsLoading


-----------------------------------------------------------------------------
(* The session as the guarded screens follow it: /dashboard and /verify-email with the
   clock standing still *)

\* the DashboardLayout renders its children
DashboardContentShown_IgnoresVerified == route = "/dashboard" /\ ~isLoading /\ IsSome(user)
DashboardContentShown == route = "/dashboard" /\ ~isLoading /\ IsSome(user) /\ Get(user).verified

NextSession ==
    \/ DashboardLayoutEffect
    \/ ReloadVerifyEmail
    \/ HandleResendVerification
    \/ ResendVerificationOk
    \/ ResendVerificationErr
    \/ AutoSendOk
    \/ AutoSendErr
    \/ OrphanSendOk
    \/ OrphanSendErr
    \/ HandleRefreshVerification
    \/ AuthRefreshOk
    \/ AuthRefreshErr
    \/ BackendVerifiesUser
    \/ Logout

SpecSession == InitVerify /\ [][NextSession]_vars

\* ... and with refreshVerificationStatus called where no button offers it
NextSessionCtl == NextSession \/ RefreshWithoutSession

SpecSessionCtl == InitVerify /\ [][NextSessionCtl]_vars


\* the effects of a mounted screen run after every commit, and the responses of the
\* calls left behind by an unmounted page arrive
SpecSessionFair ==
    /\ SpecSession
    /\ WF_vars(DashboardLayoutEffect)
    /\ WF_vars(OrphanSendOk \/ OrphanSendErr)

-----------------------------------------------------------------------------
(* Guarded screens *)

UserVerified == IsSome(user) /\ Get(user).verified
UserUnverified == IsSome(user) /\ ~Get(user).verified

\* C21: the routing policy is applied again after every change of the session.  On
\* /verify-email the page is never left standing with a loaded AuthProvider and no user
\* or a verified user, and a step that changes the user there lands on the route the
\* policy gives for the new user; on /dashboard an absent user leads to /login and an
\* unverified user leads away from the dashboard (to /verify-email) unless the user
\* becomes verified first.
C21_RoutingFollowsSession ==
    /\ []((VerifyEmailMounted /\ ~isLoading) => UserUnverified)
    /\ [][(VerifyEmailMounted /\ user' # user) => route' = VerifyEmailRouting(user', isLoading')]_vars
    /\ [][ev' = "dashboardLayoutEffect" =>
            route' = (IF IsSome(user) THEN "/verify-email" ELSE "/login")]_vars
    /\ (route = "/dashboard" /\ ~isLoading /\ ~IsSome(user)) ~> (route = "/login")
    /\ (route = "/dashboard" /\ ~isLoading /\ UserUnverified)
          ~> (route = "/verify-email" \/ ~UserUnverified)

\* a session that ended on /verify-email has led to /login
C21_Witness == ev = "logout" /\ route = "/login" /\ ~IsSome(user) /\ IsSome(refreshReq)


\* C22: protected content is rendered only for a present and verified session.  Whenever
\* the DashboardLayout renders its children the AuthProvider has finished loading, the
\* user is non-null and verified and so is the record the auth store holds; whenever
\* the verify-email page renders its content the loading has finished and the user and
\* the store's session are present.
C22_ContentOnlyWithSession ==
    /\ DashboardContentShown =>
          /\ ~isLoading
          /\ UserVerified
          /\ IsSome(authStore) /\ Get(authStore).verified
          /\ Get(authStore).email = Get(user).email
    /\ VerifyEmailShown =>
          /\ ~isLoading
          /\ IsSome(user)
          /\ IsSome(authStore)
          /\ Get(authStore).email = Get(user).email

\* the dashboard is rendered for a user whose verification a refresh has just fetched
C22_Witness == DashboardContentShown /\ ev = "authRefresh:ok"


\* C23: refreshing the verification status reports without throwing.  Called without a
\* user or a valid session it returns false and starts no call and changes no session
\* state; when authRefresh resolves, user becomes the fetched record and the result is
\* that record's verified flag (the page goes to /dashboard for true and shows the
\* not-verified status for false); when authRefresh rejects the result is false (the
\* page shows the not-verified status and stops being busy) and user and the auth store
\* are as before.
C23_RefreshReportsWithoutThrowing ==
    /\ [][ev' = "refreshVerificationStatus:false" =>
            /\ refreshReq' = refreshReq
            /\ user' = user /\ authStore' = authStore /\ route' = route]_vars
    /\ [][ev' = "authRefresh:ok" =>
            LET e == Get(refreshReq).email
                fetched == [email |-> e, verified |-> srvVerified[e]]
            IN  /\ user' = Some(fetched)
                /\ refreshReq' = None
                /\ (VerifyEmailMounted /\ Get(refreshReq).live) =>
                      IF fetched.verified
                      THEN route' = "/dashboard"
                      ELSE /\ route' = route
                           /\ refreshStatus' = Some("notVerified")
                           /\ ~isRefreshing']_vars
    /\ [][ev' = "authRefresh:err" =>
            /\ user' = user /\ authStore' = authStore /\ route' = route
            /\ refreshReq' = None
            /\ (VerifyEmailMounted /\ Get(refreshReq).live) =>
                  (refreshStatus' = Some("notVerified") /\ ~isRefreshing')]_vars

\* a refresh has failed on the page: the user is kept and told "not verified"
C23_Witness ==
    /\ ev = "authRefresh:err"
    /\ VerifyEmailShown
    /\ refreshStatus = Some("notVerified")
    /\ ~isRefreshing


\* C24: logout clears the local session and waits for no call.  Right after a logout,
\* whatever calls were in flight, the auth store holds no session, the AuthProvider's
\* user is null, the persisted pocketbase_auth entry is gone and the route is /login;
\* the calls in flight are neither awaited nor answered by the step.
C24_LogoutClearsLocalSession ==
    [][ev' = "logout" =>
          /\ authStore' = None
          /\ user' = None
          /\ pocketbase_auth' = None
          /\ route' = "/login"
          /\ IsSome(refreshReq') = IsSome(refreshReq)
          /\ orphanReqs' = orphanReqs + autoReqs + (IF resendReq THEN 1 ELSE 0)]_vars

\* a logout from the verify-email page while one of its sends was still in flight
C24_Witness ==
    /\ ev = "logout"
    /\ authStore = None /\ pocketbase_auth = None /\ user = None
    /\ route = "/login"
    /\ orphanReqs > 0


-----------------------------------------------------------------------------
(* The auth store, its persisted entry and the AuthProvider's listener, on a screen
   that takes no part in it (/forgot-password) *)

\* the listeners subscribed after the AuthProvider's effect is torn down: the effect
\* returns no cleanup
AfterTeardown(listeners) == listeners

\* what the subscribed listeners make of a store change: only a mounted AuthProvider
\* has a user state to set
NotifyProvider(store) == IF providerMounted /\ authListeners > 0 THEN UserOfStore(store) ELSE user

StoreFrame == UNCHANGED <<srvOtps, route, loginVars, veVars, tokVars, regVars, flow>>

\* a call of the SDK that authenticates (authWithOTP, authWithPassword, authRefresh)
\* resolves: the SDK saves the record, the listeners run
AuthCallSaves(email) ==
    /\ authStore' = Some(RecordOf(email))
    /\ pocketbase_auth' = PersistAuth(authStore', pocketbase_auth)
    /\ user' = NotifyProvider(authStore')
    /\ ev' = "authStore:save"
    /\ StoreFrame
    /\ UNCHANGED <<srvVerified, isLoading, provVars>>

\* pb.authStore.clear(), the listeners run
StoreCleared ==
    /\ IsSome(authStore)
    /\ authStore' = None
    /\ pocketbase_auth' = PersistAuth(None, pocketbase_auth)
    /\ user' = NotifyProvider(None)
    /\ ev' = "authStore:clear"
    /\ StoreFrame
    /\ UNCHANGED <<srvVerified, isLoading, provVars>>

\* the AuthProvider is unmounted: its state is gone, its effect has no cleanup to run
UnmountAuthProvider ==
    /\ providerMounted
    /\ providerMounted' = FALSE
    /\ authListeners' = AfterTeardown(authListeners)
    /\ user' = None
    /\ isLoading' = TRUE
    /\ ev' = "authProvider:unmount"
    /\ StoreFrame
    /\ UNCHANGED <<authStore, pocketbase_auth, srvVerified>>

\* an AuthProvider is mounted: useState(null), useState(true), then the effect
MountAuthProvider ==
    /\ ~providerMounted
    /\ authListeners < MaxListeners
    /\ providerMounted' = TRUE
    /\ user' = UserOfStore(authStore)
    /\ isLoading' = FALSE
    /\ authListeners' = authListeners + 1
    /\ ev' = "authProvider:mount"
    /\ StoreFrame
    /\ UNCHANGED <<authStore, pocketbase_auth, srvVerified>>

\* the entry is overwritten with text that is no JSON (the key is shared by everything
\* that runs on the origin)
EntryDamaged ==
    /\ pocketbase_auth # Some(Unparseable)
    /\ pocketbase_auth' = Some(Unparseable)
    /\ ev' = "entry:damaged"
    /\ StoreFrame
    /\ UNCHANGED <<authStore, srvVerified, user, isLoading, provVars>>

\* the application is loaded anew: pocketbase.ts restores the store from the entry and
\* subscribes its listener, then the AuthProvider mounts
LoadApplication ==
    /\ authStore' = RestoreAuth(pocketbase_auth).store
    /\ pocketbase_auth' = RestoreAuth(pocketbase_auth).entry
    /\ authListeners' = 1
    /\ providerMounted' = TRUE
    /\ user' = UserOfStore(authStore')
    /\ isLoading' = FALSE
    /\ ev' = "load"
    /\ StoreFrame
    /\ UNCHANGED srvVerified

InitStore ==
    /\ srvVerified = [e \in Emails |-> FALSE]
    /\ srvOtps = << >>
    /\ authStore \in {None, Some([email |-> "a@example.com", verified |-> FALSE])}
    /\ user = UserOfStore(authStore)
    /\ pocketbase_auth = PersistAuth(authStore, None)
    /\ ProviderLoaded
    /\ isLoading = FALSE
    /\ route = "/forgot-password"
    /\ lfError = None
    /\ lfIsLoading = FALSE
    /\ existingUser = None
    /\ showOtpForm = FALSE
    /\ otpId = None
    /\ userEmail = ""
    /\ isLoadingOtp = FALSE
    /\ lfReq = None
    /\ otpReq = None
    /\ ev = "init"
    /\ flow = NewFlow(authStore)
    /\ now = 0
    /\ lastVerificationEmailSent = None
    /\ PageUnmounted
    /\ orphanReqs = 0
    /\ refreshReq = None
    /\ FormsUnmounted

NextStore ==
    \/ \E e \in Emails : AuthCallSaves(e)
    \/ StoreCleared
    \/ UnmountAuthProvider
    \/ MountAuthProvider
    \/ EntryDamaged
    \/ LoadApplication
    \/ BackendVerifiesUser

SpecStore == InitStore /\ [][NextStore]_vars

\* C25: the AuthProvider's session-change listener is unregistered on teardown.  While
\* no AuthProvider is mounted none of its listeners is subscribed on the auth store, and
\* never more than one is subscribed.
C25_ListenerUnsubscribedOnTeardown ==
    /\ ~providerMounted => authListeners = 0
    /\ authListeners <= 1


-----------------------------------------------------------------------------
(* Countdown timer *)

-----------------------------------------------------------------------------
(* One-time-code step: one call at a time *)

\* C27: in the one-time-code step verify, resend and abandon never overlap.  While a
\* verify or resend call is outstanding the step is busy and none of its three buttons
\* is enabled; each of the three starts only when no call is outstanding; and a resend
\* that resolves does so in the step it was started in, not after an abandon, setting
\* the challenge id to the one the backend issued last.
C27_OtpStepOneCallAtATime ==
    /\ [](IsSome(otpReq) => (OtpStepShown /\ isLoadingOtp /\ ~OtpButtonsEnabled))
    /\ [][ev' \in {"onOtpSubmit", "handleResendOtp", "handleBackToLogin"} =>
            (otpReq = None /\ lfReq = None)]_vars
    /\ [][ev' = "resendOtp:ok" =>
            /\ showOtpForm' /\ ~flow'.abandoned
            /\ otpId' = Some(Len(srvOtps'))
            /\ otpReq' = None]_vars
    /\ []((flow.abandoned /\ ~showOtpForm) => (otpId = None /\ otpReq = None))

\* a second resend has resolved in the step: its challenge is the one held
C27_Witness ==
    /\ ev = "resendOtp:ok"
    /\ Len(srvOtps) = MaxOtp
    /\ otpId = Some(MaxOtp)
    /\ OtpButtonsEnabled


-----------------------------------------------------------------------------
(* Persisted session *)

\* the entry that mirrors a store: its token and record as JSON, or no entry
MirrorOf(store) ==
    IF IsSome(store)
    THEN Some([text |-> "json", token |-> TokenOf(Get(store)), model |-> Get(store)])
    ELSE None

-----------------------------------------------------------------------------
(* Manual resend of the verification email *)

\* C29: a failed manual resend changes only the status message and the busy flag.  The
\* step in which the page's requestVerification rejects leaves the stored last-sent
\* timestamp, the countdown, its interval and the initial-email-sent flag as they were,
\* sets the failure status and clears isResending; session, route and the calls of
\* others are untouched.
C29_FailedResendFrame ==
    [][ev' = "resendVerification:err" =>
          /\ UNCHANGED <<lastVerificationEmailSent, countdown, timer, initialEmailSent>>
          /\ resendStatus' = Some("failure")
          /\ isResending' = FALSE
          /\ resendReq' = FALSE
          /\ UNCHANGED <<sessVars, refreshStatus, isRefreshing, autoReqs, orphanReqs, refreshReq, now>>]_vars

\* a manual resend has failed on a page that never recorded a send
C29_Witness ==
    /\ ev = "resendVerification:err"
    /\ VerifyEmailShown
    /\ resendStatus = Some("failure")
    /\ ~isResending
    /\ lastVerificationEmailSent = None
    /\ countdown = 0


-----------------------------------------------------------------------------
(* Countdown *)

\* the clock of the run has reached its last second
ClockEnded == now = MaxNow * MsPerSecond

====
